---- MODULE Spec2Model ----
(***************************************************************************)
(* Rendering pipeline of backendSecure: per-page render tasks, the merge   *)
(* task and the self-heal reconciler, all acting on one DocumentJobs       *)
(* record through MongoDB updates and two BullMQ queues.                   *)
(*                                                                         *)
(* The repository holds three revisions of workers/pdfWorker.js:           *)
(*   "pdfWorker.js"  src/workers/pdfWorker.js                              *)
(*   "part_000"      src/unnamed/part_000                                  *)
(*   "part_001"      src/unnamed/part_001                                  *)
(* The variable `variant` fixes which revision is the running worker.      *)
(* pdfWorker.js and part_000 have the same render worker; the three merge  *)
(* workers differ.                                                         *)
(*                                                                         *)
(* Every action is one atomic store/queue operation together with the      *)
(* process-local code around it (the code between two awaits).             *)
(*                                                                         *)
(* BullMQ, as used by the code: add() with a jobId that is present in the  *)
(* queue is ignored; a task added with removeOnComplete/removeOnFail is    *)
(* deleted when it completes/fails, otherwise it stays in state completed/ *)
(* failed; retry() moves a failed task back to waiting; a task whose lock  *)
(* is lost (stalled) goes back to waiting and is delivered again while the *)
(* first execution is still running (at-least-once delivery).              *)
(***************************************************************************)
EXTENDS Integers, Sequences, FiniteSets, TLC

(* ------------------------------ bounds --------------------------------- *)
TotalPages == 2
NumRenderWorkers == 2
NumMergeWorkers == 2
MaxEvents == 3
MaxTicks == 2
TickMs == 40000
NumCallers == 2
MaxLaunches == 3
MaxItems == 3
NumJobs == 2
NumRequests == 3
MaxQuota == 2
NumGetters == 3
MaxClients == 2

(* -------------------------- program constants -------------------------- *)
StaleMs == 30000
CooldownMs == 60000

redisEnabled == TRUE

Variants == {"pdfWorker.js", "part_000", "part_001"}
Pages == 0 .. (TotalPages - 1)
RenderWorkers == 1 .. NumRenderWorkers
MergeWorkers == 1 .. NumMergeWorkers
NullId == 0
StartMs == CooldownMs

VARIABLES
  variant,          \* which revision of the worker file is running
  now,              \* Date.now()
  ticks,
  job,              \* the DocumentJobs record
  renderQ,          \* outputPdfQueue: page -> task "<jobId>-page-<page>"
  mergeTask,        \* mergePdfQueue: the task "<jobId>-merge"
  rw,               \* render worker executions (locals of the handler)
  mw,               \* merge worker executions (locals of the handler)
  documents,        \* Document records created by the merge worker
  grants,           \* DocumentAccess records, keyed by documentId (one user)
  heal,             \* locals of the selfHealJobIfStalled call
  lastJobHealAt,    \* lastJobHealAt.get(jobId) || 0
  lastMergeHealAt,  \* lastMergeHealAt.get(jobId) || 0
  events,           \* budget spent: 2 per re-delivery, 1 per thrown error or pass
  uploads,          \* uploadToS3 calls for page artifacts
  failures,         \* errors thrown by a handler
  mergeAccepted,    \* merge tasks accepted by mergePdfQueue.add
  mergeLive,        \* merge tasks waiting or active in mergePdfQueue
  transitions,      \* render-worker conditional updates that matched
  outputWrites,     \* writes of outputDocumentId
  emptyPdfErrors    \* "Empty PDF" errors thrown

clock == <<now, ticks>>
healMaps == <<lastJobHealAt, lastMergeHealAt>>
store == <<documents, grants>>
mergeCounters == <<mergeAccepted, mergeLive>>
pipeline == <<variant, clock, job, renderQ, mergeTask, rw, mw, store, heal,
              healMaps, events, uploads, failures, mergeCounters, transitions,
              outputWrites, emptyPdfErrors>>

\* src/pdf/generateOutputPdf.js: the module-level engine cache and the calls
\* of generateOutputPdfBuffer that are in progress
VARIABLES
  browserPromise,   \* let browserPromise: 0 is null, else the launch awaited
  browserInstance,  \* let browserInstance: 0 is null, else the engine
  browsers,         \* launch/engine id -> state of that launch and engine
  calls             \* caller -> locals of its generateOutputPdfBuffer call

pool == <<browserPromise, browserInstance, browsers, calls>>

\* resolveS3ImagesInLayout of the worker: one invocation
VARIABLES
  layout,           \* the argument: the src of each item of layout.items
  bucket,           \* whether process.env.AWS_S3_BUCKET is set
  res               \* locals of the invocation and the GetObject calls sent

resolver == <<layout, bucket, res>>

\* GET /assigned of routes/docs.js: one status read over a user's jobs
VARIABLES
  jobs,             \* the DocumentJobs records DocumentJobs.find returns
  heals,            \* job -> locals of its selfHealJobIfStalled call
  read              \* the request handler: its position and its response

statusRead == <<jobs, heals, read>>

\* POST /secure-print of routes/docs.js: the access grant of one session
\* token and the requests that carry it
VARIABLES
  versioned,        \* whether access.save() checks the version it has read
  s3Bucket,         \* whether process.env.AWS_S3_BUCKET is set
  access,           \* the DocumentAccess record of the session token
  prints            \* request -> locals of its handler and its response

securePrint == <<versioned, s3Bucket, access, prints>>

\* the redis client module (src/unnamed/part_002)
VARIABLES
  openOnConnect,    \* whether client.isOpen is true from the connect() call on
  redisUrl,         \* whether resolveRedisUrlFromEnv() returns a URL
  client,           \* let client: 0 is undefined, else the client created
  isConnecting,     \* let isConnecting
  clients,          \* client id -> state of the client createClient returned
  gets              \* caller -> locals of its getRedisClient call

redis == <<openOnConnect, redisUrl, client, isConnecting, clients, gets>>

\* state of the components the rendering pipeline does not touch
aside == <<pool, resolver, statusRead, securePrint, redis>>
vars == <<pipeline, aside>>

(* ------------------------------ helpers -------------------------------- *)
NoTask == [state |-> "absent", owner |-> 0, removeOnFail |-> FALSE]
\* a render task as outputPdfQueue.add leaves it
WaitingTask(removeOnFail) ==
  [state |-> "waiting", owner |-> 0, removeOnFail |-> removeOnFail]
IdleRender == [pc |-> "idle", page |-> 0, pdfLength |-> 0, late |-> FALSE]
IdleMerge == [pc |-> "idle", pageArtifacts |-> <<>>, doc |-> NullId]
IdleHeal == [pc |-> "idle", job |-> <<>>, now |-> 0, lastAt |-> 0,
             path |-> "none", existing |-> FALSE, missing |-> <<>>,
             wrote |-> "none", added |-> {}, retried |-> {}, skipped |-> {},
             mergeOp |-> "none", n |-> 0]

\* new Set(pageArtifacts.map(a => a.pageIndex))
ArtifactPageIndexes(pageArtifacts) ==
  {pageArtifacts[i].pageIndex : i \in 1 .. Len(pageArtifacts)}

\* an update that would $set the stage and leave the status as it was
SetStageOnly(j, status, stage) ==
  [j EXCEPT !.stage = stage, !.updatedAt = now]
\* a mongoose update of the job: $set of status and stage; updatedAt follows
SetStage(j, status, stage) ==
  [j EXCEPT !.status = status, !.stage = stage, !.updatedAt = now]

Callers == 1 .. NumCallers
Launches == 1 .. MaxLaunches
\* an id no puppeteer.launch() call has been given yet
NoBrowser == [launch |-> "none", connected |-> FALSE, event |-> FALSE]
\* the locals of generateOutputPdfBuffer before the call: browser, page and
\* timeoutId unset; err is the error being thrown, outcome what the caller gets
IdleCall == [pc |-> "idle", promise |-> 0, browser |-> 0, retried |-> FALSE,
             page |-> "none", timer |-> FALSE, fired |-> "none",
             err |-> "none",
             outcome |-> "none"]

\* generateOutputPdf.js as loaded: both module variables null, no call made
PoolIdle ==
  /\ browserPromise = 0
  /\ browserInstance = 0
  /\ browsers = [b \in Launches |-> NoBrowser]
  /\ calls = [c \in Callers |-> IdleCall]

S3Keys == {"a", "b"}
\* item.src: an s3:// reference to a key, another URL, or no src at all
Sources ==
  [scheme : {"s3"}, path : S3Keys] \cup
  {[scheme |-> "https", path |-> "x"], [scheme |-> "none", path |-> ""]}
Layouts == UNION {[1 .. n -> Sources] : n \in 0 .. MaxItems}
IdleResolve == [pc |-> "idle", next |-> 1, cache |-> {}, pending |-> {},
                fetches |-> [k \in S3Keys |-> 0], out |-> <<>>,
                same |-> FALSE]

\* no invocation of resolveS3ImagesInLayout
ResolverIdle ==
  /\ layout = <<>>
  /\ bucket = TRUE
  /\ res = IdleResolve

JobIds == 1 .. NumJobs
\* the locals of selfHealJobIfStalled before it is called
IdleSelfHeal == [pc |-> "idle", existing |-> FALSE, left |-> <<>>,
                 marked |-> "none", added |-> 0, caught |-> FALSE]

\* no request to GET /assigned
ReadIdle ==
  /\ jobs = [j \in JobIds |-> <<>>]
  /\ heals = [j \in JobIds |-> IdleSelfHeal]
  /\ read = [pc |-> "idle", status |-> 0]

Requests == 1 .. NumRequests
\* the locals of the secure-print handler before the request: usedPrints and
\* version as read by findOne, the response status, and by how much the
\* request's save changed the stored usedPrints
IdlePrint == [pc |-> "idle", token |-> "none", usedPrints |-> 0,
              version |-> 0, status |-> 0, delta |-> 0]

\* no request to POST /secure-print
PrintIdle ==
  /\ versioned = FALSE
  /\ s3Bucket = TRUE
  /\ access = [assignedQuota |-> 0, usedPrints |-> 0, version |-> 0,
               documentId |-> TRUE]
  /\ prints = [r \in Requests |-> IdlePrint]

Getters == 1 .. NumGetters
ClientIds == 1 .. MaxClients
\* a client createClient has not returned yet
NoClient == [created |-> FALSE, isOpen |-> FALSE, connect |-> "none"]
\* the locals of getRedisClient before the call; result is the client
\* returned and open whether that client's isOpen was true at the return
IdleGet == [pc |-> "idle", mine |-> 0, result |-> 0, open |-> FALSE]

\* the redis client module as loaded: client undefined, isConnecting false
RedisIdle ==
  /\ openOnConnect = FALSE
  /\ redisUrl = TRUE
  /\ client = 0
  /\ isConnecting = FALSE
  /\ clients = [k \in ClientIds |-> NoClient]
  /\ gets = [g \in Getters |-> IdleGet]

\* the job as created: pending, no page rendered; its render tasks wait in
\* outputPdfQueue (the code that adds them is not part of the sources, so
\* their removeOnFail option is left open)
JobCreated ==
  /\ variant \in Variants
  /\ now = StartMs
  /\ ticks = 0
  /\ job = [totalPages |-> TotalPages, completedPages |-> 0,
            pageArtifacts |-> <<>>, layoutPages |-> TotalPages,
            stage |-> "pending", status |-> "pending",
            outputDocumentId |-> NullId, updatedAt |-> StartMs]
  /\ \E initialRemoveOnFail \in BOOLEAN :
       renderQ = [p \in Pages |-> WaitingTask(initialRemoveOnFail)]
  /\ mergeTask = [state |-> "absent", owner |-> 0, keep |-> FALSE]
  /\ rw = [w \in RenderWorkers |-> IdleRender]
  /\ mw = [m \in MergeWorkers |-> IdleMerge]
  /\ documents = <<>>
  /\ grants = {}
  /\ heal = IdleHeal
  /\ lastJobHealAt = 0
  /\ lastMergeHealAt = 0
  /\ events = 0
  /\ uploads = 0
  /\ failures = 0
  /\ mergeAccepted = 0
  /\ mergeLive = 0
  /\ transitions = 0
  /\ outputWrites = 0
  /\ emptyPdfErrors = 0

Init ==
  /\ JobCreated
  /\ PoolIdle /\ ResolverIdle /\ ReadIdle /\ PrintIdle /\ RedisIdle

(* ------------------------------ queues --------------------------------- *)
\* a queue that takes every add, whatever is present under the jobId
AddAcceptedAlways(task) == TRUE

\* Queue.add under a jobId: the queue takes the task only when no task with
\* that identity is present
AddAccepted(task) == task.state = "absent"

\* a task the queue can hand out: it waits, or it is active and its lock was
\* lost (stalled), so that it is delivered again while the first execution
\* still runs
Deliverable(task) == task.state \in {"waiting", "active"}

Redelivery(task) == task.state = "active"

\* a render task leaves its handler: a completed task is removed
\* (removeOnComplete: true), a failed one is removed or stays as failed
\* (removeOnFail); a handler that lost the lock changes nothing
RenderTaskDone(w, p, ok) ==
  IF renderQ[p].state = "active" /\ renderQ[p].owner = w
    THEN [renderQ EXCEPT ![p] =
            IF ok \/ renderQ[p].removeOnFail THEN NoTask
            ELSE [@ EXCEPT !.state = "failed", !.owner = 0]]
    ELSE renderQ

\* mergePdfQueue.add("mergeJob", {jobId}, {jobId: `${jobId}-merge`, ...});
\* keep = the task was added without removeOnComplete/removeOnFail
MergeQueueAdd(keep) ==
  IF AddAccepted(mergeTask)
    THEN /\ mergeTask' = [state |-> "waiting", owner |-> 0, keep |-> keep]
         /\ mergeAccepted' = mergeAccepted + 1
         /\ mergeLive' = mergeLive + 1
    ELSE /\ UNCHANGED <<mergeTask, mergeAccepted, mergeLive>>

\* the merge task held by execution m leaves its handler (ok: it returned)
MergeTaskDone(task, m, ok) ==
  IF task.state = "active" /\ task.owner = m
    THEN IF task.keep
           THEN [task EXCEPT !.state = IF ok THEN "completed" ELSE "failed",
                             !.owner = 0]
           ELSE [state |-> "absent", owner |-> 0, keep |-> FALSE]
    ELSE task

HoldsMergeTask(m) == mergeTask.state = "active" /\ mergeTask.owner = m

(* --------------------------- render worker ----------------------------- *)
\* the job is already covered: outputDocumentId set, or stage merging/completed
AlreadyCovered(j) ==
  j.outputDocumentId # NullId \/ j.stage = "completed" \/ j.stage = "merging"

\* the pool runs a delivered task in its first free slot
FreeRenderSlot(w) ==
  /\ rw[w].pc = "idle"
  /\ \A v \in RenderWorkers : v < w => rw[v].pc # "idle"

\* part_001: the queue hands page p to execution w; findById, the idempotency
\* check, then resolveS3ImagesInLayout and generateOutputPdfBuffer, which
\* return a buffer of some length (0 = empty)
RenderReceive(w, p) ==
  /\ variant = "part_001"
  /\ FreeRenderSlot(w)
  /\ Deliverable(renderQ[p])
  /\ IF AlreadyCovered(job)
       THEN /\ events' = IF Redelivery(renderQ[p]) THEN events + 2 ELSE events
            /\ renderQ' = [renderQ EXCEPT ![p] = NoTask]
            /\ rw' = rw
       ELSE /\ renderQ' = [renderQ EXCEPT ![p].state = "active", ![p].owner = w]
            /\ \E len \in 0 .. 1 :
                 /\ events' = events + (IF Redelivery(renderQ[p]) THEN 2 ELSE 0)
                                     + (IF len = 0 THEN 1 ELSE 0)
                 /\ rw' = [rw EXCEPT ![w] = [pc |-> "rendered", page |-> p,
                                             pdfLength |-> len, late |-> FALSE]]
  /\ events' <= MaxEvents
  /\ UNCHANGED <<aside, variant, clock, job, mergeTask, mw, store, heal, healMaps,
                 uploads, failures, mergeCounters, transitions, outputWrites,
                 emptyPdfErrors>>

\* pdfWorker.js and part_000: the queue hands page p to execution w; findById,
\* no check of the job's stage, then the rendering as above
RenderReceiveLegacy(w, p) ==
  /\ variant # "part_001"
  /\ FreeRenderSlot(w)
  /\ Deliverable(renderQ[p])
  /\ renderQ' = [renderQ EXCEPT ![p].state = "active", ![p].owner = w]
  /\ \E len \in 0 .. 1 :
       /\ events' = events + (IF Redelivery(renderQ[p]) THEN 2 ELSE 0)
                           + (IF len = 0 THEN 1 ELSE 0)
       /\ rw' = [rw EXCEPT ![w] = [pc |-> "rendered", page |-> p,
                                   pdfLength |-> len,
                                   late |-> AlreadyCovered(job)]]
  /\ events' <= MaxEvents
  /\ UNCHANGED <<aside, variant, clock, job, mergeTask, mw, store, heal, healMaps,
                 uploads, failures, mergeCounters, transitions, outputWrites,
                 emptyPdfErrors>>

\* what an error thrown in the render handler does to the job: part_001 has
\* no catch; pdfWorker.js and part_000 mark the job failed and rethrow
RenderCatch ==
  IF variant = "part_001" THEN job ELSE SetStage(job, "failed", "failed")

\* a check that lets every buffer through
IsEmptyPdfNever(pdfLength) == FALSE

\* if (!pdf?.length) throw new Error("Empty PDF")
IsEmptyPdf(pdfLength) == pdfLength = 0

\* the findByIdAndUpdate after the upload: $inc, $push, $set
PersistArtifact(j, key, pageIndex) ==
  [j EXCEPT !.completedPages = @ + 1,
            !.pageArtifacts = Append(@, [key |-> key, pageIndex |-> pageIndex]),
            !.status = "processing",
            !.stage = "rendering",
            !.updatedAt = now]

\* the check of the buffer, uploadToS3, findByIdAndUpdate, the threshold test
RenderPersist(w) ==
  /\ rw[w].pc = "rendered"
  /\ IF IsEmptyPdf(rw[w].pdfLength)
       THEN /\ job' = RenderCatch
            /\ renderQ' = RenderTaskDone(w, rw[w].page, FALSE)
            /\ rw' = [rw EXCEPT ![w] = IdleRender]
            /\ failures' = failures + 1
            /\ emptyPdfErrors' = emptyPdfErrors + 1
            /\ UNCHANGED uploads
       ELSE /\ uploads' = uploads + 1
            /\ job' = PersistArtifact(job, uploads + 1, rw[w].page)
            /\ IF job'.completedPages >= job'.totalPages /\ job'.totalPages > 0
                 THEN /\ rw' = [rw EXCEPT ![w].pc =
                                  IF variant = "part_001" THEN "threshold"
                                                          ELSE "enqueue"]
                      /\ UNCHANGED renderQ
                 ELSE /\ rw' = [rw EXCEPT ![w] = IdleRender]
                      /\ renderQ' = RenderTaskDone(w, rw[w].page, TRUE)
            /\ UNCHANGED <<failures, emptyPdfErrors>>
  /\ UNCHANGED <<aside, variant, clock, mergeTask, mw, store, heal, healMaps, events,
                 mergeCounters, transitions, outputWrites>>

\* the renderer or the upload throws
RenderThrow(w) ==
  /\ rw[w].pc = "rendered"
  /\ ~IsEmptyPdf(rw[w].pdfLength)
  /\ events < MaxEvents
  /\ events' = events + 1
  /\ failures' = failures + 1
  /\ job' = RenderCatch
  /\ renderQ' = RenderTaskDone(w, rw[w].page, FALSE)
  /\ rw' = [rw EXCEPT ![w] = IdleRender]
  /\ UNCHANGED <<aside, variant, clock, mergeTask, mw, store, heal, healMaps, uploads,
                 mergeCounters, transitions, outputWrites, emptyPdfErrors>>

\* the guard of the conditional transition to merging
TransitionGuard(j) ==
  j.outputDocumentId = NullId /\ j.stage \in {"pending", "rendering"}

\* part_001: findOneAndUpdate({outputDocumentId: null, stage in
\* [pending, rendering]}, {stage: merging}); no match: return
RenderTransition(w) ==
  /\ rw[w].pc = "threshold"
  /\ IF TransitionGuard(job)
       THEN /\ job' = SetStage(job, "processing", "merging")
            /\ transitions' = transitions + 1
            /\ rw' = [rw EXCEPT ![w].pc = "enqueue"]
            /\ UNCHANGED renderQ
       ELSE /\ rw' = [rw EXCEPT ![w] = IdleRender]
            /\ renderQ' = RenderTaskDone(w, rw[w].page, TRUE)
            /\ UNCHANGED <<job, transitions>>
  /\ UNCHANGED <<aside, variant, clock, mergeTask, mw, store, heal, healMaps, events,
                 uploads, failures, mergeCounters, outputWrites, emptyPdfErrors>>

\* mergePdfQueue.add under "<jobId>-merge", then the handler returns
RenderEnqueue(w) ==
  /\ rw[w].pc = "enqueue"
  /\ MergeQueueAdd(variant # "part_001")
  /\ rw' = [rw EXCEPT ![w] = IdleRender]
  /\ renderQ' = RenderTaskDone(w, rw[w].page, TRUE)
  /\ UNCHANGED <<aside, variant, clock, job, mw, store, heal, healMaps, events,
                 uploads, failures, transitions, outputWrites, emptyPdfErrors>>

(* ---------------------------- merge worker ----------------------------- *)
\* no sort: the artifacts in the order they were appended
SortByPageIndexNone(s) == s

RECURSIVE InsertByPageIndex(_, _)
\* x goes after every element whose pageIndex is not larger (stable sort)
InsertByPageIndex(s, x) ==
  IF s = <<>> THEN <<x>>
  ELSE IF s[Len(s)].pageIndex <= x.pageIndex THEN Append(s, x)
  ELSE Append(InsertByPageIndex(SubSeq(s, 1, Len(s) - 1), x), s[Len(s)])

RECURSIVE SortByPageIndex(_)
\* [...jobDoc.pageArtifacts].sort((a, b) => a.pageIndex - b.pageIndex)
SortByPageIndex(s) ==
  IF s = <<>> THEN <<>>
  ELSE InsertByPageIndex(SortByPageIndex(SubSeq(s, 1, Len(s) - 1)), s[Len(s)])

\* a delivered merge task runs in the first free execution
FreeMergeSlot(m) ==
  /\ mw[m].pc = "idle"
  /\ \A v \in MergeWorkers : v < m => mw[v].pc # "idle"

\* a claim that matches every job
ClaimGuardAlways(j) == TRUE

\* the guard of the merge worker's claim
ClaimGuard(j) == j.outputDocumentId = NullId /\ j.stage # "completed"

\* part_001: the queue hands the merge task to execution m; the claim
\* findOneAndUpdate({outputDocumentId: null, stage != completed},
\* {stage: merging}); no match: return
MergeClaim(m) ==
  /\ variant = "part_001"
  /\ FreeMergeSlot(m)
  /\ Deliverable(mergeTask)
  /\ Redelivery(mergeTask) => events + 2 <= MaxEvents
  /\ events' = IF Redelivery(mergeTask) THEN events + 2 ELSE events
  /\ IF ClaimGuard(job)
       THEN /\ job' = SetStage(job, "processing", "merging")
            /\ mw' = [mw EXCEPT ![m] = [pc |-> "claimed",
                                        pageArtifacts |-> job.pageArtifacts,
                                        doc |-> NullId]]
            /\ mergeTask' = [mergeTask EXCEPT !.state = "active", !.owner = m]
            /\ UNCHANGED mergeLive
       ELSE /\ mergeTask' = MergeTaskDone(
                 [mergeTask EXCEPT !.state = "active", !.owner = m], m, TRUE)
            /\ mergeLive' = mergeLive - 1
            /\ UNCHANGED <<job, mw>>
  /\ UNCHANGED <<aside, variant, clock, renderQ, rw, store, heal, healMaps, uploads,
                 failures, mergeAccepted, transitions, outputWrites,
                 emptyPdfErrors>>

\* part_000: findById and the check for a finished job, no write
MergeRead(m) ==
  /\ variant = "part_000"
  /\ FreeMergeSlot(m)
  /\ Deliverable(mergeTask)
  /\ Redelivery(mergeTask) => events + 2 <= MaxEvents
  /\ events' = IF Redelivery(mergeTask) THEN events + 2 ELSE events
  /\ IF job.outputDocumentId # NullId \/ job.stage = "completed"
       THEN /\ mergeTask' = MergeTaskDone(
                 [mergeTask EXCEPT !.state = "active", !.owner = m], m, TRUE)
            /\ mergeLive' = mergeLive - 1
            /\ UNCHANGED mw
       ELSE /\ mw' = [mw EXCEPT ![m] = [pc |-> "read",
                                        pageArtifacts |-> job.pageArtifacts,
                                        doc |-> NullId]]
            /\ mergeTask' = [mergeTask EXCEPT !.state = "active", !.owner = m]
            /\ UNCHANGED mergeLive
  /\ UNCHANGED <<aside, variant, clock, job, renderQ, rw, store, heal, healMaps,
                 uploads, failures, mergeAccepted, transitions, outputWrites,
                 emptyPdfErrors>>

\* part_000: the best-effort findByIdAndUpdate to stage merging
MergeMark(m) ==
  /\ mw[m].pc = "read"
  /\ job' = SetStage(job, "processing", "merging")
  /\ mw' = [mw EXCEPT ![m].pc = "claimed"]
  /\ UNCHANGED <<aside, variant, clock, renderQ, mergeTask, rw, store, heal, healMaps,
                 events, uploads, failures, mergeCounters, transitions,
                 outputWrites, emptyPdfErrors>>

\* pdfWorker.js: findById only, no check and no write
MergeReadLegacy(m) ==
  /\ variant = "pdfWorker.js"
  /\ FreeMergeSlot(m)
  /\ Deliverable(mergeTask)
  /\ Redelivery(mergeTask) => events + 2 <= MaxEvents
  /\ events' = IF Redelivery(mergeTask) THEN events + 2 ELSE events
  /\ mw' = [mw EXCEPT ![m] = [pc |-> "claimed",
                              pageArtifacts |-> job.pageArtifacts,
                              doc |-> NullId]]
  /\ mergeTask' = [mergeTask EXCEPT !.state = "active", !.owner = m]
  /\ UNCHANGED <<aside, variant, clock, job, renderQ, rw, store, heal, healMaps,
                 uploads, failures, mergeCounters, transitions, outputWrites,
                 emptyPdfErrors>>

\* a Document created before any artifact was copied
MergedDocumentPartial(pageArtifacts) ==
  [source |-> pageArtifacts, pages |-> <<>>]

\* the Document the merge handler builds from the artifacts it read
MergedDocument(pageArtifacts) ==
  [source |-> pageArtifacts, pages |-> SortByPageIndex(pageArtifacts)]

\* download and copy the sorted artifacts, merged.save(), uploadToS3,
\* Document.create, then the DocumentAccess upsert keyed by
\* {userId, documentId: doc._id}
MergeCreate(m) ==
  /\ mw[m].pc = "claimed"
  /\ documents' = Append(documents, MergedDocument(mw[m].pageArtifacts))
  /\ grants' = grants \cup {Len(documents) + 1}
  /\ mw' = [mw EXCEPT ![m].pc = "granted", ![m].doc = Len(documents) + 1]
  /\ UNCHANGED <<aside, variant, clock, job, renderQ, mergeTask, rw, heal, healMaps,
                 events, uploads, failures, mergeCounters, transitions,
                 outputWrites, emptyPdfErrors>>

\* what an error thrown in the merge handler does to the job: part_001 has
\* no catch; pdfWorker.js and part_000 mark the job failed and rethrow
MergeCatch ==
  IF variant = "part_001" THEN job ELSE SetStage(job, "failed", "failed")

\* as MergeCreate, but the DocumentAccess upsert throws after Document.create
MergeUpsertThrow(m) ==
  /\ mw[m].pc = "claimed"
  /\ events < MaxEvents
  /\ events' = events + 1
  /\ failures' = failures + 1
  /\ documents' = Append(documents, MergedDocument(mw[m].pageArtifacts))
  /\ job' = MergeCatch
  /\ mergeTask' = MergeTaskDone(mergeTask, m, FALSE)
  /\ mergeLive' = IF HoldsMergeTask(m) THEN mergeLive - 1 ELSE mergeLive
  /\ mw' = [mw EXCEPT ![m] = IdleMerge]
  /\ UNCHANGED <<aside, variant, clock, renderQ, rw, grants, heal, healMaps, uploads,
                 mergeAccepted, transitions, outputWrites, emptyPdfErrors>>

\* the final findByIdAndUpdate, then the handler returns
MergeFinalize(m) ==
  /\ mw[m].pc = "granted"
  /\ job' = [job EXCEPT !.status = "completed", !.stage = "completed",
                        !.outputDocumentId = mw[m].doc, !.updatedAt = now]
  /\ outputWrites' = outputWrites + 1
  /\ mergeTask' = MergeTaskDone(mergeTask, m, TRUE)
  /\ mergeLive' = IF HoldsMergeTask(m) THEN mergeLive - 1 ELSE mergeLive
  /\ mw' = [mw EXCEPT ![m] = IdleMerge]
  /\ UNCHANGED <<aside, variant, clock, renderQ, rw, store, heal, healMaps, events,
                 uploads, failures, mergeAccepted, transitions, emptyPdfErrors>>

\* a download, a load or the upload (before Document.create), or the final
\* update (after the upsert) throws
MergeThrow(m) ==
  /\ mw[m].pc \in {"read", "claimed", "granted"}
  /\ events < MaxEvents
  /\ events' = events + 1
  /\ failures' = failures + 1
  /\ job' = MergeCatch
  /\ mergeTask' = MergeTaskDone(mergeTask, m, FALSE)
  /\ mergeLive' = IF HoldsMergeTask(m) THEN mergeLive - 1 ELSE mergeLive
  /\ mw' = [mw EXCEPT ![m] = IdleMerge]
  /\ UNCHANGED <<aside, variant, clock, renderQ, rw, store, heal, healMaps, uploads,
                 mergeAccepted, transitions, outputWrites, emptyPdfErrors>>

(* ----------------------- reconciler (docs.js) -------------------------- *)
\* every page index from i on, with or without an artifact
MissingFromAll(i, totalPages, indexes) ==
  [k \in 1 .. (totalPages - i) |-> i + k - 1]

RECURSIVE MissingFrom(_, _, _)
\* for (i = 0; i < totalPages; i++) if (!artifactPageIndexes.has(i)) push(i)
MissingFrom(i, totalPages, indexes) ==
  IF i >= totalPages THEN <<>>
  ELSE IF i \in indexes THEN MissingFrom(i + 1, totalPages, indexes)
  ELSE <<i>> \o MissingFrom(i + 1, totalPages, indexes)

\* a reconciler that takes every job for fully rendered
PagesAreDoneAlways(j) == TRUE

\* const hasAllArtifacts, pagesAreDone
PagesAreDone(j) ==
  /\ j.completedPages >= j.totalPages
  /\ Cardinality(ArtifactPageIndexes(j.pageArtifacts)) >= j.totalPages

\* a reconciler without cooldown
InCooldownNever(t, lastAt) == FALSE

\* if (now - lastAt < 60_000) return, for lastMergeHealAt and lastJobHealAt
InCooldown(t, lastAt) == t - lastAt < CooldownMs

\* a reconciler that takes every job for stale
IsFreshNever(t, updatedAt) == FALSE

\* if (!updatedAtMs || Number.isNaN(updatedAtMs)) return;
\* if (now - updatedAtMs < 30_000) return
IsFresh(t, updatedAt) == updatedAt = 0 \/ t - updatedAt < StaleMs

\* a reconciler that retries whatever task it finds
RetryWantedAlways(state) == TRUE

\* if (state === 'failed') await existing.retry()
RetryWanted(state) == state = "failed"

\* GET /assigned reads the jobs whose status is not completed and calls
\* selfHealJobIfStalled(job); this is the read and the function up to its
\* first queue or store operation: the early returns and the two cooldowns
HealStart ==
  /\ heal.pc \in {"idle", "done"}
  /\ events < MaxEvents
  /\ events' = events + 1
  /\ job.status # "completed"
  /\ LET j == job
         missing == MissingFrom(0, j.totalPages,
                                ArtifactPageIndexes(j.pageArtifacts))
         h == [IdleHeal EXCEPT !.job = j, !.now = now, !.n = heal.n + 1]
     IN
     IF ~redisEnabled \/ j.totalPages <= 0
       THEN /\ heal' = [h EXCEPT !.pc = "done"]
            /\ UNCHANGED healMaps
     ELSE IF PagesAreDone(j)
       THEN IF j.outputDocumentId # NullId
              THEN /\ heal' = [h EXCEPT !.pc = "done"]
                   /\ UNCHANGED healMaps
            ELSE IF InCooldown(now, lastMergeHealAt)
              THEN /\ heal' = [h EXCEPT !.pc = "done", !.path = "merge",
                                        !.lastAt = lastMergeHealAt]
                   /\ UNCHANGED healMaps
            ELSE /\ lastMergeHealAt' = now
                 /\ heal' = [h EXCEPT !.pc = "mergeGetJob", !.path = "merge",
                                      !.lastAt = lastMergeHealAt]
                 /\ UNCHANGED lastJobHealAt
     ELSE IF IsFresh(now, j.updatedAt)
       THEN /\ heal' = [h EXCEPT !.pc = "done", !.path = "render",
                                 !.lastAt = lastJobHealAt]
            /\ UNCHANGED healMaps
     ELSE IF InCooldown(now, lastJobHealAt)
       THEN /\ heal' = [h EXCEPT !.pc = "done", !.path = "render",
                                 !.lastAt = lastJobHealAt]
            /\ UNCHANGED healMaps
     ELSE /\ lastJobHealAt' = now
          /\ UNCHANGED lastMergeHealAt
          /\ heal' = [h EXCEPT !.path = "render", !.lastAt = lastJobHealAt,
                               !.missing = missing,
                               !.pc = IF j.layoutPages < j.totalPages
                                         \/ missing = <<>>
                                        THEN "done"
                                      ELSE IF j.status = "failed"
                                              \/ j.stage = "failed"
                                        THEN "renderWrite"
                                      ELSE "renderLoop"]
  /\ UNCHANGED <<aside, variant, clock, job, renderQ, mergeTask, rw, mw, store,
                 uploads, failures, mergeCounters, transitions, outputWrites,
                 emptyPdfErrors>>

\* const existing = await mergePdfQueue.getJob(mergeJobId)
HealMergeGetJob ==
  /\ heal.pc = "mergeGetJob"
  /\ heal' = [heal EXCEPT !.pc = "mergeWrite",
                          !.existing = (mergeTask.state # "absent")]
  /\ UNCHANGED <<aside, variant, clock, job, renderQ, mergeTask, rw, mw, store,
                 healMaps, events, uploads, failures, mergeCounters,
                 transitions, outputWrites, emptyPdfErrors>>

\* findByIdAndUpdate(jobId, {status: processing, stage: merging})
HealMergeWrite ==
  /\ heal.pc = "mergeWrite"
  /\ job' = SetStage(job, "processing", "merging")
  /\ heal' = [heal EXCEPT !.pc = "mergeQueue", !.wrote = "merging"]
  /\ UNCHANGED <<aside, variant, clock, renderQ, mergeTask, rw, mw, store, healMaps,
                 events, uploads, failures, mergeCounters, transitions,
                 outputWrites, emptyPdfErrors>>

\* if (existing) { getState; retry when failed; return } else
\* mergePdfQueue.add under "<jobId>-merge"
HealMergeQueue ==
  /\ heal.pc = "mergeQueue"
  /\ IF heal.existing
       THEN IF RetryWanted(mergeTask.state)
              THEN /\ mergeTask' = [mergeTask EXCEPT !.state = "waiting"]
                   /\ mergeLive' = mergeLive + 1
                   /\ heal' = [heal EXCEPT !.pc = "done", !.mergeOp = "retry"]
                   /\ UNCHANGED mergeAccepted
              ELSE /\ heal' = [heal EXCEPT !.pc = "done"]
                   /\ UNCHANGED <<mergeTask, mergeLive, mergeAccepted>>
       ELSE /\ MergeQueueAdd(FALSE)
            /\ heal' = [heal EXCEPT !.pc = "done",
                                    !.mergeOp = IF AddAccepted(mergeTask)
                                                  THEN "add" ELSE "duplicate"]
  /\ UNCHANGED <<aside, variant, clock, job, renderQ, rw, mw, store, healMaps, events,
                 uploads, failures, transitions, outputWrites, emptyPdfErrors>>

\* findByIdAndUpdate(jobId, {status: processing, stage: rendering}) for a job
\* that was read as failed
HealRenderWrite ==
  /\ heal.pc = "renderWrite"
  /\ job' = SetStage(job, "processing", "rendering")
  /\ heal' = [heal EXCEPT !.pc = "renderLoop", !.wrote = "rendering"]
  /\ UNCHANGED <<aside, variant, clock, renderQ, mergeTask, rw, mw, store, healMaps,
                 events, uploads, failures, mergeCounters, transitions,
                 outputWrites, emptyPdfErrors>>

\* one round of the loop over the missing pages: getJob("<jobId>-page-<i>"),
\* retry of a failed task, or outputPdfQueue.add under that identity
HealRenderPage ==
  /\ heal.pc = "renderLoop"
  /\ LET pageIndex == Head(heal.missing)
         rest == Tail(heal.missing)
         pc == IF rest = <<>> THEN "done" ELSE "renderLoop"
     IN
     IF renderQ[pageIndex].state # "absent"
       THEN IF RetryWanted(renderQ[pageIndex].state)
              THEN /\ renderQ' = [renderQ EXCEPT ![pageIndex].state = "waiting"]
                   /\ heal' = [heal EXCEPT !.pc = pc, !.missing = rest,
                                           !.retried = @ \cup {pageIndex}]
              ELSE /\ heal' = [heal EXCEPT !.pc = pc, !.missing = rest,
                                           !.skipped = @ \cup {pageIndex}]
                   /\ UNCHANGED renderQ
       ELSE /\ renderQ' = [renderQ EXCEPT ![pageIndex] = WaitingTask(FALSE)]
            /\ heal' = [heal EXCEPT !.pc = pc, !.missing = rest,
                                    !.added = @ \cup {pageIndex}]
  /\ UNCHANGED <<aside, variant, clock, job, mergeTask, rw, mw, store, healMaps,
                 events, uploads, failures, mergeCounters, transitions,
                 outputWrites, emptyPdfErrors>>

(* ------------------------------- clock --------------------------------- *)
\* Date.now() moves on; a handler's own steps take no time, the clock advances
\* between handler executions
Tick ==
  /\ ticks < MaxTicks
  /\ \A w \in RenderWorkers : rw[w].pc = "idle"
  /\ \A m \in MergeWorkers : mw[m].pc = "idle"
  /\ heal.pc \in {"idle", "done"}
  /\ ticks' = ticks + 1
  /\ now' = now + TickMs
  /\ UNCHANGED <<aside, variant, job, renderQ, mergeTask, rw, mw, store, heal,
                 healMaps, events, uploads, failures, mergeCounters,
                 transitions, outputWrites, emptyPdfErrors>>

Next ==
  \/ \E w \in RenderWorkers, p \in Pages : RenderReceive(w, p)
  \/ \E w \in RenderWorkers, p \in Pages : RenderReceiveLegacy(w, p)
  \/ \E w \in RenderWorkers : RenderPersist(w)
  \/ \E w \in RenderWorkers : RenderThrow(w)
  \/ \E w \in RenderWorkers : RenderTransition(w)
  \/ \E w \in RenderWorkers : RenderEnqueue(w)
  \/ \E m \in MergeWorkers : MergeClaim(m)
  \/ \E m \in MergeWorkers : MergeRead(m)
  \/ \E m \in MergeWorkers : MergeMark(m)
  \/ \E m \in MergeWorkers : MergeReadLegacy(m)
  \/ \E m \in MergeWorkers : MergeCreate(m)
  \/ \E m \in MergeWorkers : MergeUpsertThrow(m)
  \/ \E m \in MergeWorkers : MergeFinalize(m)
  \/ \E m \in MergeWorkers : MergeThrow(m)
  \/ HealStart
  \/ HealMergeGetJob
  \/ HealMergeWrite
  \/ HealMergeQueue
  \/ HealRenderWrite
  \/ HealRenderPage
  \/ Tick

Spec == Init /\ [][Next]_vars

(* ======================================================================= *)
(* Claims                                                                  *)
(* ======================================================================= *)

\* C1 (as stated): completedPages equals the number of distinct pageIndex
\* values in pageArtifacts in every reachable state.
C1_CompletedEqualsDistinct ==
  job.completedPages = Cardinality(ArtifactPageIndexes(job.pageArtifacts))

\* C2 (as stated): over the job's lifetime the merge queue accepts at most
\* one merge task; in particular render workers alone (no error thrown, no
\* reconciler pass) never cause two merge tasks to be accepted.
C2_OneMergeAcceptedEver ==
  (failures = 0 /\ heal.n = 0) => mergeAccepted <= 1

\* C3 (as stated): among the render workers that see completedPages >=
\* totalPages, the conditional update matches for exactly one (here: with no
\* error thrown and no reconciler pass, at most one match).
C3_OneTransitionMatches ==
  (failures = 0 /\ heal.n = 0) => transitions <= 1

\* C4 (as stated): a render task received while the job has outputDocumentId
\* set or stage merging/completed changes nothing: no upload, no job write,
\* no enqueue.
C4_CoveredRenderIsNoOp ==
  [][\A w \in RenderWorkers :
       (rw[w].late /\ rw'[w] # rw[w]) =>
         (uploads' = uploads /\ job' = job /\ mergeTask' = mergeTask)]_vars

\* C5 (as stated): running the merge task twice creates at most one Document
\* and one Access Grant and writes outputDocumentId at most once (here: with
\* no error thrown).
C5_MergeTwiceOneDocument ==
  failures = 0 =>
    (Len(documents) <= 1 /\ Cardinality(grants) <= 1 /\ outputWrites <= 1)

\* C6 (as stated): outputDocumentId is set if and only if stage = completed.
C6_OutputIffCompleted ==
  (job.outputDocumentId # NullId) <=> (job.stage = "completed")

\* C7: every merged Document holds the artifacts the merge worker read, each
\* once, in ascending pageIndex order, whatever their order in pageArtifacts.
C7_MergeOrderAscending ==
  \A i \in 1 .. Len(documents) :
    LET d == documents[i].pages
        src == documents[i].source
    IN /\ Len(d) = Len(src)
       /\ {d[k] : k \in 1 .. Len(d)} = {src[k] : k \in 1 .. Len(src)}
       /\ \A k \in 1 .. (Len(d) - 1) : d[k].pageIndex <= d[k + 1].pageIndex

\* C7 witness: a Document was merged from artifacts that were appended out of
\* page order.
C7_Witness ==
  \E i \in 1 .. Len(documents) :
    \E k \in 1 .. (Len(documents[i].source) - 1) :
      documents[i].source[k].pageIndex > documents[i].source[k + 1].pageIndex

\* the page indices of [0, totalPages) without an artifact
MissingPages(j) ==
  (0 .. (j.totalPages - 1)) \ ArtifactPageIndexes(j.pageArtifacts)

\* the job a pass read has totalPages > 0, fewer distinct artifact indices
\* than totalPages, was updated more than 30 s before the pass, and is failed
C8_Pre(h) ==
  /\ h.job.totalPages > 0
  /\ Cardinality(ArtifactPageIndexes(h.job.pageArtifacts)) < h.job.totalPages
  /\ h.now - h.job.updatedAt > StaleMs
  /\ h.job.status = "failed"

\* C8 (as stated): such a pass sets the job to processing/rendering and
\* enqueues one render task for exactly the missing page indices.
C8_PassEnqueuesMissing ==
  (heal.pc = "done" /\ C8_Pre(heal)) =>
    (heal.wrote = "rendering" /\ heal.added = MissingPages(heal.job))

\* C8 (amended): when moreover no render heal of the job ran in the 60 s
\* before and layoutPages has totalPages entries, the pass sets the job to
\* processing/rendering and handles exactly the missing page indices, each
\* once: it adds the task, retries the failed task, or leaves the task that
\* is still in the queue alone. A pass inside the cooldown writes nothing and
\* touches no task.
C8_PassRepairsMissing ==
  (heal.pc = "done" /\ C8_Pre(heal)) =>
    /\ (/\ heal.now - heal.lastAt >= CooldownMs
        /\ heal.job.layoutPages >= heal.job.totalPages) =>
         /\ heal.wrote = "rendering"
         /\ heal.added \cup heal.retried \cup heal.skipped
              = MissingPages(heal.job)
         /\ heal.added \cap heal.retried = {}
         /\ heal.added \cap heal.skipped = {}
         /\ heal.retried \cap heal.skipped = {}
    /\ heal.now - heal.lastAt < CooldownMs =>
         /\ heal.wrote = "none"
         /\ heal.added \cup heal.retried \cup heal.skipped = {}

\* C8 witness: a pass over a failed, stale job flipped it back to rendering
\* and enqueued a task for a missing page.
C8_Witness ==
  /\ heal.pc = "done"
  /\ C8_Pre(heal)
  /\ heal.wrote = "rendering"
  /\ heal.added # {}
  /\ heal.added \cup heal.retried = MissingPages(heal.job)

\* the job a pass read has an artifact for every page index and no
\* outputDocumentId
C9_Pre(h) ==
  /\ h.job.totalPages > 0
  /\ MissingPages(h.job) = {}
  /\ h.job.outputDocumentId = NullId

\* the step that ends a reconciler pass
PassEnds == heal'.pc = "done" /\ heal' # heal

\* C9 (as stated): such a pass sets stage = merging and leaves exactly one
\* merge task in the queue.
C9_PassYieldsOneMerge ==
  [][(PassEnds /\ C9_Pre(heal')) =>
       (heal'.wrote = "merging" /\ mergeLive' = 1)]_vars

\* C9 (amended): when moreover no merge heal of the job ran in the 60 s
\* before, the pass sets stage = merging and does at most one queue
\* operation: an add when no merge task was found, a retry when the task
\* found is failed; after an add or a retry exactly one merge task is in the
\* queue, and never two. A pass inside the cooldown writes nothing and does
\* no queue operation.
C9_PassRepairsMerge ==
  [][(PassEnds /\ C9_Pre(heal')) =>
       /\ heal'.now - heal'.lastAt >= CooldownMs =>
            /\ heal'.wrote = "merging"
            /\ mergeLive' <= 1
            /\ heal'.mergeOp \in {"add", "retry"} => mergeLive' = 1
            /\ heal'.mergeOp \in {"add", "duplicate"} => ~heal'.existing
            /\ heal'.mergeOp = "retry" => heal'.existing
       /\ heal'.now - heal'.lastAt < CooldownMs =>
            /\ heal'.wrote = "none"
            /\ heal'.mergeOp = "none"
            /\ UNCHANGED <<job, mergeTask, mergeLive>>]_vars

\* C9 witness: a pass over a job with all artifacts and no output wrote
\* stage merging and added the merge task.
C9_Witness ==
  /\ heal.pc = "done"
  /\ C9_Pre(heal)
  /\ heal.wrote = "merging"
  /\ heal.mergeOp = "add"
  /\ job.stage = "merging"

\* C10: an empty buffer from the renderer fails the page task: nothing is
\* uploaded, nothing is appended to pageArtifacts, completedPages stays.
C10_EmptyPdfFailsTask ==
  [][\A w \in RenderWorkers :
       (rw[w].pc = "rendered" /\ rw[w].pdfLength = 0 /\ rw'[w] # rw[w]) =>
         /\ uploads' = uploads
         /\ job'.pageArtifacts = job.pageArtifacts
         /\ job'.completedPages = job.completedPages
         /\ failures' = failures + 1
         /\ emptyPdfErrors' = emptyPdfErrors + 1
         /\ rw'[w].pc = "idle"
         /\ (renderQ[rw[w].page].state = "active"
             /\ renderQ[rw[w].page].owner = w) =>
              renderQ'[rw[w].page].state \in {"failed", "absent"}]_vars

\* C10 witness: a page task failed with "Empty PDF".
C10_Witness ==
  /\ emptyPdfErrors > 0
  /\ \E p \in Pages : renderQ[p].state = "failed"

\* C11: every call of mergePdfQueue.add or retry for the job, by a render
\* worker or by the reconciler, and every acceptance of a merge task, happens
\* in a state where completedPages >= totalPages.
C11_MergeEnqueuedAfterThreshold ==
  [][(\/ \E w \in RenderWorkers : rw[w].pc = "enqueue" /\ rw'[w].pc = "idle"
      \/ heal.pc = "mergeQueue" /\ heal'.pc = "done"
      \/ mergeAccepted' # mergeAccepted
      \/ mergeLive' > mergeLive)
     => job.completedPages >= job.totalPages]_vars

\* C11 witness: a render worker enqueued the merge task right at the
\* threshold, with no reconciler pass.
C11_Witness ==
  /\ heal.n = 0
  /\ mergeAccepted = 1
  /\ mergeTask.state = "waiting"
  /\ job.completedPages = job.totalPages

\* C12: a Document appears only as the full merge of the artifacts a merge
\* execution read (every artifact copied, then uploaded); a grant exists only
\* for a created Document and outputDocumentId names only a granted Document;
\* a merge execution that fails having created no Document creates no Access
\* Grant and does not write outputDocumentId.
C12_DocumentAfterFullMerge ==
  [][/\ \/ documents' = documents
        \/ \E m \in MergeWorkers :
             /\ mw[m].pc = "claimed"
             /\ Len(documents') = Len(documents) + 1
             /\ SubSeq(documents', 1, Len(documents)) = documents
             /\ LET d == documents'[Len(documents')]
                IN /\ d.source = mw[m].pageArtifacts
                   /\ Len(d.pages) = Len(d.source)
                   /\ {d.pages[k] : k \in 1 .. Len(d.pages)}
                        = {d.source[k] : k \in 1 .. Len(d.source)}
     /\ grants' \subseteq 1 .. Len(documents')
     /\ job'.outputDocumentId # NullId => job'.outputDocumentId \in grants'
     /\ (/\ \E m \in MergeWorkers : mw[m].pc # "idle" /\ mw'[m].pc = "idle"
         /\ failures' = failures + 1
         /\ documents' = documents)
        => (/\ grants' = grants
            /\ job'.outputDocumentId = job.outputDocumentId
            /\ outputWrites' = outputWrites)]_vars

\* C12 witness: the merge task failed before any Document was created; no
\* Document, no grant, no outputDocumentId.
C12_Witness ==
  /\ mergeTask.state = "failed"
  /\ documents = <<>>
  /\ grants = {}
  /\ job.outputDocumentId = NullId

\* C13 (as stated): an error thrown in a render task sets the job to
\* status = failed, stage = failed.
C13_RenderErrorMarksFailed ==
  [][\A w \in RenderWorkers :
       (rw[w].pc = "rendered" /\ rw'[w].pc = "idle"
        /\ failures' = failures + 1)
       => (job'.status = "failed" /\ job'.stage = "failed")]_vars

\* C14 (as stated): an error thrown at any point of a merge task sets the job
\* to status = failed, stage = failed.
C14_MergeErrorMarksFailed ==
  [][\A m \in MergeWorkers :
       (mw[m].pc # "idle" /\ mw'[m].pc = "idle" /\ failures' = failures + 1)
       => (job'.status = "failed" /\ job'.stage = "failed")]_vars

\* C15: in part_001 a merge task that is delivered while the job has
\* outputDocumentId set or stage completed (the claim matches nothing) starts
\* no execution, uploads nothing, creates no Document and no grant, and leaves
\* the job record unchanged.
C15_UnmatchedClaimIsNoOp ==
  [][(/\ variant = "part_001"
      /\ job.outputDocumentId # NullId \/ job.stage = "completed"
      /\ mergeTask.state \in {"waiting", "active"}
      /\ mergeTask' # mergeTask
      /\ \A m \in MergeWorkers : mw[m].pc = "idle" \/ mw'[m].pc # "idle")
     => (/\ mw' = mw
         /\ job' = job
         /\ documents' = documents
         /\ grants' = grants
         /\ uploads' = uploads
         /\ outputWrites' = outputWrites
         /\ mergeTask'.state = "absent")]_vars

\* C15 witness: in part_001 a second merge task was accepted after the job
\* completed, was delivered, and left the queue without a second Document.
C15_Witness ==
  /\ variant = "part_001"
  /\ failures = 0
  /\ mergeAccepted = 2
  /\ mergeTask.state = "absent"
  /\ job.stage = "completed"
  /\ Len(documents) = 1
  /\ \A m \in MergeWorkers : mw[m].pc = "idle"

(* ======================================================================= *)
(* Engine pool: src/pdf/generateOutputPdf.js                               *)
(*                                                                         *)
(* One Node.js process: the code between two awaits runs as one step, and  *)
(* a continuation that is only a microtask away runs with the step before  *)
(* it.  The engine (puppeteer) is the environment: each awaited call is    *)
(* answered with a result, with a rejection, or not at all.  An engine     *)
(* that loses its connection makes isConnected() false; its 'disconnected' *)
(* event is delivered as a step of its own.                                *)
(* ======================================================================= *)
notPool == <<pipeline, resolver, statusRead, securePrint, redis>>

PipelineOff ==
  /\ JobCreated
  /\ variant = "part_001"
  /\ \A p \in Pages : ~renderQ[p].removeOnFail

\* puppeteer.launch() calls whose promise is pending
InFlight == {b \in Launches : browsers[b].launch = "pending"}

\* the value a finished call hands to its caller: the buffer or the error
Report(err) == IF err = "none" THEN "buffer" ELSE err

\* a finally block that closes the page only when the try block succeeded
FinallyOnSuccessOnly(call, err) ==
  IF call.page = "open" /\ err = "none"
    THEN [call EXCEPT !.pc = "closing", !.err = err, !.timer = FALSE]
    ELSE [call EXCEPT !.pc = "done", !.err = err, !.timer = FALSE,
                      !.outcome = Report(err)]

\* leaving the try block with err ("none": return pdfBuffer): the finally
\* block awaits page.close() when page is set
Finally(call, err) ==
  IF call.page = "open"
    THEN [call EXCEPT !.pc = "closing", !.err = err, !.timer = FALSE]
    ELSE [call EXCEPT !.pc = "done", !.err = err, !.timer = FALSE,
                      !.outcome = Report(err)]

\* getBrowser from `if (!browserPromise)` on, with browserPromise = promise:
\* launch when it is null, then wait for browserPromise
AwaitBrowser(c, promise, call) ==
  IF promise # 0
    THEN /\ browserPromise' = promise
         /\ browsers' = browsers
         /\ calls' = [calls EXCEPT ![c] =
                        [call EXCEPT !.pc = "awaitLaunch", !.promise = promise]]
    ELSE \E b \in Launches :
           /\ browsers[b].launch = "none"
           /\ \A x \in Launches : x < b => browsers[x].launch # "none"
           /\ browserPromise' = b
           /\ browsers' = [browsers EXCEPT ![b].launch = "pending"]
           /\ calls' = [calls EXCEPT ![c] =
                          [call EXCEPT !.pc = "awaitLaunch", !.promise = b]]

\* generateOutputPdfBuffer is called: getBrowser up to its first await
Call(c) ==
  /\ calls[c].pc = "idle"
  /\ IF browserInstance # 0
       THEN IF browsers[browserInstance].connected
              THEN /\ calls' = [calls EXCEPT ![c].pc = "newPage",
                                             ![c].browser = browserInstance]
                   /\ UNCHANGED <<browserPromise, browserInstance, browsers>>
              ELSE \* await resetBrowser(): await browserInstance.close()
                   /\ calls' = [calls EXCEPT ![c].pc = "resetClose"]
                   /\ UNCHANGED <<browserPromise, browserInstance, browsers>>
       ELSE /\ AwaitBrowser(c, browserPromise, calls[c])
            /\ UNCHANGED browserInstance
  /\ UNCHANGED notPool

\* browserInstance.close() of resetBrowser is answered (a rejection is
\* swallowed): the finally block clears both variables, the caller goes on
\* in getBrowser
ResetCloseAnswered(c) ==
  /\ calls[c].pc = "resetClose"
  /\ browserInstance' = 0
  /\ AwaitBrowser(c, 0, calls[c])
  /\ UNCHANGED notPool

\* puppeteer.launch() resolves: the then-callback caches the engine
LaunchResolved(b) ==
  /\ browsers[b].launch = "pending"
  /\ browsers' = [browsers EXCEPT ![b].launch = "resolved",
                                  ![b].connected = TRUE]
  /\ browserInstance' = b
  /\ UNCHANGED <<browserPromise, calls, notPool>>

\* puppeteer.launch() rejects: the catch-callback awaits resetBrowser()
LaunchRejected(b) ==
  /\ browsers[b].launch = "pending"
  /\ IF browserInstance # 0
       THEN /\ browsers' = [browsers EXCEPT
                              ![b].launch = "resetting",
                              ![browserInstance].connected = FALSE]
            /\ UNCHANGED <<browserPromise, browserInstance>>
       ELSE /\ browsers' = [browsers EXCEPT ![b].launch = "rejected"]
            /\ browserPromise' = 0
            /\ browserInstance' = 0
  /\ UNCHANGED <<calls, notPool>>

\* the close awaited by the catch-callback is answered: both variables are
\* cleared and the launch promise rejects
LaunchResetDone(b) ==
  /\ browsers[b].launch = "resetting"
  /\ browsers' = [browsers EXCEPT ![b].launch = "rejected"]
  /\ browserPromise' = 0
  /\ browserInstance' = 0
  /\ UNCHANGED <<calls, notPool>>

\* `await getBrowser()` resumes with the engine, and browser.newPage() is
\* called
GotBrowser(c) ==
  /\ calls[c].pc = "awaitLaunch"
  /\ browsers[calls[c].promise].launch = "resolved"
  /\ calls' = [calls EXCEPT ![c].pc = "newPage",
                            ![c].browser = calls[c].promise]
  /\ UNCHANGED <<browserPromise, browserInstance, browsers, notPool>>

\* `await getBrowser()` throws the launch error
LaunchFailed(c) ==
  /\ calls[c].pc = "awaitLaunch"
  /\ browsers[calls[c].promise].launch = "rejected"
  /\ calls' = [calls EXCEPT ![c] = Finally(calls[c], "launch")]
  /\ UNCHANGED <<browserPromise, browserInstance, browsers, notPool>>

\* an engine loses its connection
Disconnect(b) ==
  /\ browsers[b].launch = "resolved"
  /\ browsers[b].connected
  /\ browsers' = [browsers EXCEPT ![b].connected = FALSE, ![b].event = TRUE]
  /\ UNCHANGED <<browserPromise, browserInstance, calls, notPool>>

\* browser.on('disconnected', ...) of that engine runs
DisconnectedEvent(b) ==
  /\ browsers[b].event
  /\ browsers' = [browsers EXCEPT ![b].event = FALSE]
  /\ browserInstance' = 0
  /\ browserPromise' = 0
  /\ UNCHANGED <<calls, notPool>>

\* browser.newPage() is answered
NewPageOpened(c) ==
  /\ calls[c].pc = "newPage"
  /\ browsers[calls[c].browser].connected
  /\ calls' = [calls EXCEPT ![c].pc = "setViewport", ![c].page = "open"]
  /\ UNCHANGED <<browserPromise, browserInstance, browsers, notPool>>

\* a catch block that would be entered again by the newPage() inside it
MayRetryAlways(call) == TRUE
\* the catch block guards the first newPage() only: the newPage() after
\* `browser = await getBrowser()` stands inside it, outside the inner try
MayRetry(call) == ~call.retried

\* the first browser.newPage() rejects with ConnectionClosedError:
\* await resetBrowser(); browser = await getBrowser()
NewPageConnectionClosed(c) ==
  /\ calls[c].pc = "newPage"
  /\ MayRetry(calls[c])
  /\ ~browsers[calls[c].browser].connected
  /\ IF browserInstance # 0
       THEN /\ calls' = [calls EXCEPT ![c].pc = "resetClose",
                                      ![c].retried = TRUE]
            /\ browsers' = [browsers EXCEPT
                              ![browserInstance].connected = FALSE]
            /\ UNCHANGED <<browserPromise, browserInstance>>
       ELSE /\ browserInstance' = 0
            /\ AwaitBrowser(c, 0, [calls[c] EXCEPT !.retried = TRUE])
  /\ UNCHANGED notPool

\* browser.newPage() rejects with another error, or the second newPage()
\* rejects: the error leaves the try block with page unset
NewPageFailed(c) ==
  /\ calls[c].pc = "newPage"
  /\ calls' = [calls EXCEPT ![c] = Finally(calls[c], "newPage")]
  /\ UNCHANGED <<browserPromise, browserInstance, browsers, notPool>>

\* page.setViewport() is answered; on success setContent is started and the
\* 30 s timer of its race is armed
ViewportAnswered(c) ==
  /\ calls[c].pc = "setViewport"
  /\ \/ /\ browsers[calls[c].browser].connected
        /\ calls' = [calls EXCEPT ![c].pc = "content", ![c].timer = TRUE]
     \/ calls' = [calls EXCEPT ![c] = Finally(calls[c], "setViewport")]
  /\ UNCHANGED <<browserPromise, browserInstance, browsers, notPool>>

\* page.setContent() wins the race; on success page.pdf() is started and the
\* 30 s timer of its race is armed
ContentAnswered(c) ==
  /\ calls[c].pc = "content"
  /\ \/ /\ browsers[calls[c].browser].connected
        /\ calls' = [calls EXCEPT ![c].pc = "pdf", ![c].timer = TRUE]
     \/ calls' = [calls EXCEPT ![c] = Finally(calls[c], "setContent")]
  /\ UNCHANGED <<browserPromise, browserInstance, browsers, notPool>>

\* a timer whose callback would resolve the race instead of rejecting it
RaceLostResolves(call, message) ==
  Finally([call EXCEPT !.fired = call.pc], "none")
\* the callback of setTimeout runs while the step is pending:
\* reject(new Error(message)) settles Promise.race, the await throws
RaceLost(call, message) ==
  Finally([call EXCEPT !.fired = call.pc], message)

\* the timer wins: reject(new Error('Page render timeout'))
ContentTimeout(c) ==
  /\ calls[c].pc = "content"
  /\ calls[c].timer
  /\ calls' = [calls EXCEPT ![c] = RaceLost(calls[c], "Page render timeout")]
  /\ UNCHANGED <<browserPromise, browserInstance, browsers, notPool>>

\* page.pdf() wins the race: return pdfBuffer, or its error
PdfAnswered(c) ==
  /\ calls[c].pc = "pdf"
  /\ \/ /\ browsers[calls[c].browser].connected
        /\ calls' = [calls EXCEPT ![c] = Finally(calls[c], "none")]
     \/ calls' = [calls EXCEPT ![c] = Finally(calls[c], "pdf")]
  /\ UNCHANGED <<browserPromise, browserInstance, browsers, notPool>>

\* the timer wins: reject(new Error('PDF generation timeout'))
PdfTimeout(c) ==
  /\ calls[c].pc = "pdf"
  /\ calls[c].timer
  /\ calls' = [calls EXCEPT ![c] =
                        RaceLost(calls[c], "PDF generation timeout")]
  /\ UNCHANGED <<browserPromise, browserInstance, browsers, notPool>>

\* page.close() of the finally block is answered; its rejection is logged
\* and swallowed, and the call ends with what left the try block
PageCloseAnswered(c) ==
  /\ calls[c].pc = "closing"
  /\ \E closed \in {"closed", "closeFailed"} :
       calls' = [calls EXCEPT ![c].pc = "done", ![c].page = closed,
                              ![c].outcome = Report(calls[c].err)]
  /\ UNCHANGED <<browserPromise, browserInstance, browsers, notPool>>

BrowserInit ==
  /\ PipelineOff
  /\ PoolIdle /\ ResolverIdle /\ ReadIdle /\ PrintIdle /\ RedisIdle

BrowserNext ==
  \/ \E c \in Callers : Call(c)
  \/ \E c \in Callers : ResetCloseAnswered(c)
  \/ \E b \in Launches : LaunchResolved(b)
  \/ \E b \in Launches : LaunchRejected(b)
  \/ \E b \in Launches : LaunchResetDone(b)
  \/ \E c \in Callers : GotBrowser(c)
  \/ \E c \in Callers : LaunchFailed(c)
  \/ \E b \in Launches : Disconnect(b)
  \/ \E b \in Launches : DisconnectedEvent(b)
  \/ \E c \in Callers : NewPageOpened(c)
  \/ \E c \in Callers : NewPageConnectionClosed(c)
  \/ \E c \in Callers : NewPageFailed(c)
  \/ \E c \in Callers : ViewportAnswered(c)
  \/ \E c \in Callers : ContentAnswered(c)
  \/ \E c \in Callers : ContentTimeout(c)
  \/ \E c \in Callers : PdfAnswered(c)
  \/ \E c \in Callers : PdfTimeout(c)
  \/ \E c \in Callers : PageCloseAnswered(c)

BrowserSpec == BrowserInit /\ [][BrowserNext]_vars

(* C16: for any interleaving of concurrent callers, including callers that *)
(* arrive while the cached engine is disconnected and being reset, at most *)
(* one engine launch is in flight, and the callers waiting for an engine   *)
(* all wait for that same launch.                                          *)
C16_OneLaunchInFlight ==
  /\ Cardinality(InFlight) <= 1
  /\ \A c, d \in Callers :
       (/\ calls[c].pc = "awaitLaunch" /\ calls[c].promise \in InFlight
        /\ calls[d].pc = "awaitLaunch" /\ calls[d].promise \in InFlight)
         => calls[c].promise = calls[d].promise

(* C17: a call of generateOutputPdfBuffer that has ended (returned or      *)
(* thrown) has no page left open: a page it opened was handed to           *)
(* page.close() and the close was awaited, on the success path, on both    *)
(* timeouts and on every engine error; whether the close succeeded or      *)
(* failed, the caller gets what left the try block (the buffer or the      *)
(* original error).                                                        *)
C17_PageClosedOnEveryExit ==
  \A c \in Callers :
    calls[c].pc = "done" =>
      /\ calls[c].page # "open"
      /\ (calls[c].err \notin {"launch", "newPage"})
           => calls[c].page \in {"closed", "closeFailed"}
      /\ calls[c].outcome = Report(calls[c].err)

C17_Witness ==
  \E c, d \in Callers :
    /\ calls[c].pc = "done" /\ calls[c].page = "closeFailed"
    /\ calls[c].outcome = "Page render timeout"
    /\ calls[d].pc = "done" /\ calls[d].page = "closed"
    /\ calls[d].outcome = "buffer"

\* The code's own steps are taken when they can be: a continuation whose
\* promise is settled runs, an armed timer fires.  Nothing is assumed of the
\* engine's answers.
BrowserFairness ==
  \A c \in Callers :
    /\ WF_vars(GotBrowser(c))
    /\ WF_vars(LaunchFailed(c))
    /\ WF_vars(ContentTimeout(c))
    /\ WF_vars(PdfTimeout(c))

BrowserLiveSpec == BrowserSpec /\ BrowserFairness

(* C18: every call of generateOutputPdfBuffer that has started eventually  *)
(* returns or throws, even if the engine never answers.                    *)
C18_EveryCallEnds ==
  \A c \in Callers : (calls[c].pc # "idle") ~> (calls[c].pc = "done")

\* the step takes call c from browser.newPage() into the retry path:
\* resetBrowser() and getBrowser() again
RetryBegins(c) ==
  /\ calls[c].pc = "newPage"
  /\ calls'[c].pc \in {"resetClose", "awaitLaunch"}

(* C25: a call leaves browser.newPage() in one of three ways only: the     *)
(* page is open; or, on a first failure by a closed connection, the        *)
(* engine is reset and obtained again, once; or, on a second failure or a  *)
(* failure of another kind, the error is thrown with no further retry.     *)
C25_RetryOnceOnConnectionClosed ==
  [][\A c \in Callers :
       (calls[c].pc = "newPage" /\ calls'[c].pc # "newPage") =>
         \/ /\ calls'[c].pc = "setViewport"
            /\ calls'[c].page = "open"
            /\ calls'[c].retried = calls[c].retried
         \/ /\ RetryBegins(c)
            /\ ~calls[c].retried
            /\ ~browsers[calls[c].browser].connected
            /\ calls'[c].retried
         \/ /\ calls'[c].pc = "done"
            /\ calls'[c].outcome = "newPage"
            /\ calls'[c].retried = calls[c].retried
            /\ browsers' = browsers
            /\ browserPromise' = browserPromise]_vars

\* C25 witness: one call failed on its second newPage() and threw, another
\* retried and got its page
C25_Witness ==
  \E c, d \in Callers :
    /\ calls[c].pc = "done" /\ calls[c].retried
    /\ calls[c].outcome = "newPage"
    /\ calls[d].retried /\ calls[d].page = "open"

\* the message of the timer that stands against each raced step
TimeoutOf(step) ==
  IF step = "content" THEN "Page render timeout" ELSE "PDF generation timeout"

(* C26: a timer fires only against the step it was armed for, content      *)
(* load or PDF export, while that step is pending; from then on the call   *)
(* is on its way out with that step's timeout error, and when it has       *)
(* ended it has thrown that error, returned no bytes, and page.close()     *)
(* has been called and has answered.                                       *)
C26_TimeoutFailsAndCloses ==
  [][\A c \in Callers :
       /\ (calls[c].fired = "none" /\ calls'[c].fired # "none") =>
            /\ calls[c].pc \in {"content", "pdf"}
            /\ calls[c].timer
            /\ calls'[c].fired = calls[c].pc
            /\ calls'[c].pc = "closing"
       /\ calls'[c].fired # "none" =>
            /\ calls'[c].pc \in {"closing", "done"}
            /\ calls'[c].err = TimeoutOf(calls'[c].fired)
            /\ ~calls'[c].timer
            /\ calls'[c].pc = "done" =>
                 /\ calls'[c].outcome = TimeoutOf(calls'[c].fired)
                 /\ calls'[c].page \in {"closed", "closeFailed"}]_vars

\* C26 witness: one call ended by the content timer, one by the PDF timer
C26_Witness ==
  \E c, d \in Callers :
    /\ calls[c].pc = "done" /\ calls[c].fired = "content"
    /\ calls[c].outcome = "Page render timeout"
    /\ calls[d].pc = "done" /\ calls[d].fired = "pdf"
    /\ calls[d].outcome = "PDF generation timeout"

(* ======================================================================= *)
(* resolveS3ImagesInLayout (src/unnamed/part_001 57-96; the same function  *)
(* is in src/workers/pdfWorker.js and src/unnamed/part_000)                *)
(*                                                                         *)
(* items.map(async item => ...) calls the callback for every item in turn; *)
(* each callback runs up to its first await (s3.send) before the next one  *)
(* starts, and none resumes before the map is over.                        *)
(* ======================================================================= *)
notResolver == <<pipeline, pool, statusRead, securePrint, redis>>

\* item?.src?.startsWith("s3://")
IsS3(src) == src.scheme = "s3"
\* item.src.replace("s3://", "")
KeyOf(src) == src.path
\* `data:${contentType};base64,${...}` of the object under key
DataUrl(key) == [scheme |-> "data", path |-> key]

\* !cache.has(key)
CacheMiss(cache, key) == key \notin cache

\* the call up to the map: the two early returns of the input layout
ResolveCall ==
  /\ res.pc = "idle"
  /\ IF ~bucket \/ ~\E i \in 1 .. Len(layout) : IsS3(layout[i])
       THEN res' = [res EXCEPT !.pc = "returned", !.out = layout,
                               !.same = TRUE]
       ELSE res' = [res EXCEPT !.pc = "mapping", !.next = 1,
                               !.cache = {},
                               !.out = layout]
  /\ UNCHANGED <<layout, bucket, notResolver>>

\* the map callback of the next item, up to its first await
MapItem ==
  /\ res.pc = "mapping"
  /\ LET i == res.next
         src == layout[i]
         last == i = Len(layout)
         pc == IF last THEN "awaiting" ELSE "mapping"
     IN IF ~IsS3(src)
          THEN res' = [res EXCEPT !.pc = pc, !.next = i + 1]
          ELSE IF CacheMiss(res.cache, KeyOf(src))
                 THEN res' = [res EXCEPT
                                !.pc = pc, !.next = i + 1,
                                !.pending = @ \cup {i},
                                !.fetches[KeyOf(src)] = @ + 1]
                 ELSE res' = [res EXCEPT
                                !.pc = pc, !.next = i + 1,
                                !.out[i] = DataUrl(KeyOf(src))]
  /\ UNCHANGED <<layout, bucket, notResolver>>

\* s3.send of item i is answered and its body read: cache.set, and the
\* callback returns the item with the data URL
FetchAnswered(i) ==
  /\ res.pc = "awaiting"
  /\ i \in res.pending
  /\ res' = [res EXCEPT !.pending = @ \ {i},
                        !.cache = @ \cup {KeyOf(layout[i])},
                        !.out[i] = DataUrl(KeyOf(layout[i]))]
  /\ UNCHANGED <<layout, bucket, notResolver>>

\* s3.send of item i rejects: Promise.all rejects and the call throws
FetchFailed(i) ==
  /\ res.pc = "awaiting"
  /\ i \in res.pending
  /\ res' = [res EXCEPT !.pc = "thrown", !.pending = @ \ {i}]
  /\ UNCHANGED <<layout, bucket, notResolver>>

\* every callback has returned: return { ...layout, items: resolvedItems }
ResolveReturn ==
  /\ res.pc = "awaiting"
  /\ res.pending = {}
  /\ res' = [res EXCEPT !.pc = "returned"]
  /\ UNCHANGED <<layout, bucket, notResolver>>

ResolverInit ==
  /\ PipelineOff
  /\ PoolIdle
  /\ ReadIdle
  /\ PrintIdle
  /\ RedisIdle
  /\ layout \in Layouts
  /\ bucket \in BOOLEAN
  /\ res = IdleResolve

ResolverNext ==
  \/ ResolveCall
  \/ MapItem
  \/ \E i \in 1 .. MaxItems : FetchAnswered(i)
  \/ \E i \in 1 .. MaxItems : FetchFailed(i)
  \/ ResolveReturn

ResolverSpec == ResolverInit /\ [][ResolverNext]_vars

\* the keys the layout refers to
KeysOf(items) == {KeyOf(items[i]) : i \in {j \in 1 .. Len(items) : IsS3(items[j])}}

(* C19: within one invocation each distinct s3:// key is fetched exactly   *)
(* once however many items refer to it (never twice; once when the call    *)
(* returns); with no s3:// source no fetch is issued and the input layout  *)
(* is returned unchanged.                                                  *)
C19_EachKeyFetchedOnce ==
  /\ \A k \in S3Keys : res.fetches[k] <= 1
  /\ (res.pc = "returned" /\ bucket)
       => \A k \in KeysOf(layout) : res.fetches[k] = 1
  /\ KeysOf(layout) = {}
       => /\ \A k \in S3Keys : res.fetches[k] = 0
          /\ res.pc = "returned" => (res.same /\ res.out = layout)

(* ======================================================================= *)
(* GET /assigned and selfHealJobIfStalled with failing operations          *)
(* (src/routes/docs.js 20-137, 395-462)                                    *)
(*                                                                         *)
(* One request: Promise.all(activeJobs.map(async job => ...)) starts the   *)
(* callback of every active job; each runs selfHealJobIfStalled(job) up to *)
(* its first await.  Every awaited store or queue operation is answered    *)
(* with a value or with a rejection.                                       *)
(* ======================================================================= *)
notRead == <<pipeline, pool, resolver, securePrint, redis>>

\* the records a read can find: n pages rendered, by status, fresh or stale
JobSnapshots ==
  {[totalPages |-> TotalPages, completedPages |-> n,
    pageArtifacts |-> [i \in 1 .. n |-> [key |-> i - 1, pageIndex |-> i - 1]],
    layoutPages |-> TotalPages, stage |-> st[2], status |-> st[1],
    outputDocumentId |-> out, updatedAt |-> at] :
     n \in 0 .. TotalPages,
     st \in {<<"processing", "rendering">>, <<"failed", "failed">>,
             <<"processing", "merging">>, <<"completed", "completed">>},
     out \in {NullId, 1},
     at \in {StartMs, StartMs - StaleMs}}

\* a record the pipeline can have written: the output is set only once all
\* pages are rendered, and a completed job has its output
IsSnapshot(j) ==
  /\ j.outputDocumentId # NullId => j.completedPages = j.totalPages
  /\ j.status = "completed" => j.outputDocumentId # NullId
  /\ j.stage = "merging" => j.completedPages = j.totalPages

\* selfHealJobIfStalled with queue.add outside the try block
OnRejectAddEscapes(op) ==
  IF op \in {"getJob", "findByIdAndUpdate", "getState", "retry", "findOne"}
    THEN "null"
    ELSE "propagate"

\* what a rejection of an awaited operation does: `.catch(() => null)` turns
\* it into null; queue.add has none and the catch block of the function
\* takes it; "propagate" is a rejection nothing takes
OnReject(op) ==
  IF op \in {"getJob", "findByIdAndUpdate", "getState", "retry", "findOne"}
    THEN "null"
    ELSE "catch"

\* selfHealJobIfStalled returns to the map callback, which awaits
\* DocumentAccess.findOne when the job has an output
Returned(j, call) ==
  [call EXCEPT !.pc = IF jobs[j].outputDocumentId # NullId
                        THEN "findOne" ELSE "mapped"]

\* an awaited operation rejects and OnReject does not make it null
Abort(j, call, how) ==
  IF how = "catch"
    THEN Returned(j, [call EXCEPT !.caught = TRUE])
    ELSE [call EXCEPT !.pc = "threw"]

\* selfHealJobIfStalled(job) up to its first await (read at StartMs by a
\* process whose cooldown maps are empty)
SelfHealEntry(j) ==
  LET job_ == jobs[j]
      missing == MissingFrom(0, job_.totalPages,
                             ArtifactPageIndexes(job_.pageArtifacts))
      h == IdleSelfHeal
  IN IF ~redisEnabled \/ job_.totalPages <= 0 THEN Returned(j, h)
     ELSE IF PagesAreDone(job_)
       THEN IF job_.outputDocumentId # NullId THEN Returned(j, h)
            ELSE IF InCooldown(StartMs, 0) THEN Returned(j, h)
            ELSE [h EXCEPT !.pc = "mergeGetJob", !.marked = "merge"]
     ELSE IF IsFresh(StartMs, job_.updatedAt)
       THEN Returned(j, h)
     ELSE IF InCooldown(StartMs, 0) THEN Returned(j, h)
     ELSE IF job_.layoutPages < job_.totalPages \/ missing = <<>>
       THEN Returned(j, [h EXCEPT !.marked = "job"])
     ELSE [h EXCEPT !.marked = "job", !.left = missing,
                    !.pc = IF job_.status = "failed" \/ job_.stage = "failed"
                             THEN "renderWrite" ELSE "renderGetJob"]

\* the handler up to Promise.all: DocumentJobs.find, the filter on status,
\* and the start of every callback; a rejected find is the handler's 500
StatusRead ==
  /\ read.pc = "idle"
  /\ \/ /\ read' = [read EXCEPT !.pc = "waiting"]
        /\ heals' = [j \in JobIds |->
                       IF jobs[j].status # "completed"
                         THEN SelfHealEntry(j) ELSE heals[j]]
     \/ /\ read' = [read EXCEPT !.pc = "responded", !.status = 500]
        /\ UNCHANGED heals
  /\ UNCHANGED <<jobs, notRead>>

\* mergePdfQueue.getJob(mergeJobId).catch(() => null)
SelfHealMergeGetJob(j) ==
  /\ heals[j].pc = "mergeGetJob"
  /\ \E answer \in {"task", "none", "reject"} :
       heals' = [heals EXCEPT ![j] =
         IF answer = "reject" /\ OnReject("getJob") # "null"
           THEN Abort(j, heals[j], OnReject("getJob"))
           ELSE [heals[j] EXCEPT !.pc = "mergeWrite",
                          !.existing = (answer = "task")]]
  /\ UNCHANGED <<jobs, read, notRead>>

\* DocumentJobs.findByIdAndUpdate(... processing/merging).catch(() => null)
SelfHealMergeWrite(j) ==
  /\ heals[j].pc = "mergeWrite"
  /\ \E answer \in {"ok", "reject"} :
       heals' = [heals EXCEPT ![j] =
         IF answer = "reject" /\ OnReject("findByIdAndUpdate") # "null"
           THEN Abort(j, heals[j], OnReject("findByIdAndUpdate"))
           ELSE [heals[j] EXCEPT !.pc = IF heals[j].existing THEN "mergeState"
                                 ELSE "mergeAdd"]]
  /\ UNCHANGED <<jobs, read, notRead>>

\* existing.getState().catch(() => null); retry only when it is 'failed'
SelfHealMergeState(j) ==
  /\ heals[j].pc = "mergeState"
  /\ \E answer \in {"failed", "active", "reject"} :
       heals' = [heals EXCEPT ![j] =
         IF answer = "reject" /\ OnReject("getState") # "null"
           THEN Abort(j, heals[j], OnReject("getState"))
           ELSE IF answer = "failed" THEN [heals[j] EXCEPT !.pc = "mergeRetry"]
           ELSE Returned(j, heals[j])]
  /\ UNCHANGED <<jobs, read, notRead>>

\* existing.retry().catch(() => null); return
SelfHealMergeRetry(j) ==
  /\ heals[j].pc = "mergeRetry"
  /\ \E answer \in {"ok", "reject"} :
       heals' = [heals EXCEPT ![j] =
         IF answer = "reject" /\ OnReject("retry") # "null"
           THEN Abort(j, heals[j], OnReject("retry"))
           ELSE Returned(j, heals[j])]
  /\ UNCHANGED <<jobs, read, notRead>>

\* await mergePdfQueue.add('mergeJob', ...)
SelfHealMergeAdd(j) ==
  /\ heals[j].pc = "mergeAdd"
  /\ \E answer \in {"ok", "reject"} :
       heals' = [heals EXCEPT ![j] =
         IF answer = "reject" /\ OnReject("add") # "null"
           THEN Abort(j, heals[j], OnReject("add"))
           ELSE Returned(j, [heals[j] EXCEPT !.added = @ + 1])]
  /\ UNCHANGED <<jobs, read, notRead>>

\* DocumentJobs.findByIdAndUpdate(... processing/rendering).catch(() => null)
SelfHealRenderWrite(j) ==
  /\ heals[j].pc = "renderWrite"
  /\ \E answer \in {"ok", "reject"} :
       heals' = [heals EXCEPT ![j] =
         IF answer = "reject" /\ OnReject("findByIdAndUpdate") # "null"
           THEN Abort(j, heals[j], OnReject("findByIdAndUpdate"))
           ELSE [heals[j] EXCEPT !.pc = "renderGetJob"]]
  /\ UNCHANGED <<jobs, read, notRead>>

\* the loop goes on to the next missing page, or the function returns
NextMissing(j, call) ==
  IF Len(call.left) > 1
    THEN [call EXCEPT !.pc = "renderGetJob", !.left = Tail(@)]
    ELSE Returned(j, [call EXCEPT !.left = <<>>])

\* outputPdfQueue.getJob(renderJobId).catch(() => null)
SelfHealRenderGetJob(j) ==
  /\ heals[j].pc = "renderGetJob"
  /\ \E answer \in {"task", "none", "reject"} :
       heals' = [heals EXCEPT ![j] =
         IF answer = "reject" /\ OnReject("getJob") # "null"
           THEN Abort(j, heals[j], OnReject("getJob"))
           ELSE [heals[j] EXCEPT !.pc = IF answer = "task" THEN "renderState"
                                 ELSE "renderAdd"]]
  /\ UNCHANGED <<jobs, read, notRead>>

\* existing.getState().catch(() => null); retry when 'failed'; continue
SelfHealRenderState(j) ==
  /\ heals[j].pc = "renderState"
  /\ \E answer \in {"failed", "active", "reject"} :
       heals' = [heals EXCEPT ![j] =
         IF answer = "reject" /\ OnReject("getState") # "null"
           THEN Abort(j, heals[j], OnReject("getState"))
           ELSE IF answer = "failed" THEN [heals[j] EXCEPT !.pc = "renderRetry"]
           ELSE NextMissing(j, heals[j])]
  /\ UNCHANGED <<jobs, read, notRead>>

\* existing.retry().catch(() => null); continue
SelfHealRenderRetry(j) ==
  /\ heals[j].pc = "renderRetry"
  /\ \E answer \in {"ok", "reject"} :
       heals' = [heals EXCEPT ![j] =
         IF answer = "reject" /\ OnReject("retry") # "null"
           THEN Abort(j, heals[j], OnReject("retry"))
           ELSE NextMissing(j, heals[j])]
  /\ UNCHANGED <<jobs, read, notRead>>

\* await outputPdfQueue.add('renderPage', payload, ...)
SelfHealRenderAdd(j) ==
  /\ heals[j].pc = "renderAdd"
  /\ \E answer \in {"ok", "reject"} :
       heals' = [heals EXCEPT ![j] =
         IF answer = "reject" /\ OnReject("add") # "null"
           THEN Abort(j, heals[j], OnReject("add"))
           ELSE NextMissing(j, [heals[j] EXCEPT !.added = @ + 1])]
  /\ UNCHANGED <<jobs, read, notRead>>

\* DocumentAccess.findOne(...).catch(() => null) of the map callback
CallbackFindOne(j) ==
  /\ heals[j].pc = "findOne"
  /\ \E answer \in {"ok", "reject"} :
       heals' = [heals EXCEPT ![j] =
         IF answer = "reject" /\ OnReject("findOne") # "null"
           THEN Abort(j, heals[j], OnReject("findOne"))
           ELSE [heals[j] EXCEPT !.pc = "mapped"]]
  /\ UNCHANGED <<jobs, read, notRead>>

\* Promise.all settles: res.json(combined) once every callback has returned,
\* the 500 of the handler's catch block as soon as one has thrown
Respond ==
  /\ read.pc = "waiting"
  /\ IF \E j \in JobIds : heals[j].pc = "threw"
       THEN read' = [read EXCEPT !.pc = "responded", !.status = 500]
       ELSE /\ \A j \in JobIds :
                 jobs[j].status # "completed" => heals[j].pc = "mapped"
            /\ read' = [read EXCEPT !.pc = "responded", !.status = 200]
  /\ UNCHANGED <<jobs, heals, notRead>>

ReadInit ==
  /\ PipelineOff
  /\ PoolIdle
  /\ ResolverIdle
  /\ PrintIdle
  /\ RedisIdle
  /\ jobs \in [JobIds -> {j \in JobSnapshots : IsSnapshot(j)}]
  /\ heals = [j \in JobIds |-> IdleSelfHeal]
  /\ read = [pc |-> "idle", status |-> 0]

ReadNext ==
  \/ StatusRead
  \/ \E j \in JobIds : SelfHealMergeGetJob(j)
  \/ \E j \in JobIds : SelfHealMergeWrite(j)
  \/ \E j \in JobIds : SelfHealMergeState(j)
  \/ \E j \in JobIds : SelfHealMergeRetry(j)
  \/ \E j \in JobIds : SelfHealMergeAdd(j)
  \/ \E j \in JobIds : SelfHealRenderWrite(j)
  \/ \E j \in JobIds : SelfHealRenderGetJob(j)
  \/ \E j \in JobIds : SelfHealRenderState(j)
  \/ \E j \in JobIds : SelfHealRenderRetry(j)
  \/ \E j \in JobIds : SelfHealRenderAdd(j)
  \/ \E j \in JobIds : CallbackFindOne(j)
  \/ Respond

ReadSpec == ReadInit /\ [][ReadNext]_vars

(* C20: selfHealJobIfStalled never throws to its caller: whatever store or *)
(* queue operation fails during the reconciliation of one job, the call    *)
(* returns; the calls for the other jobs of the same status read are not   *)
(* cut short (each runs to its own return), and the read answers 200.      *)
C20_SelfHealNeverThrows ==
  /\ \A j \in JobIds : heals[j].pc # "threw"
  /\ (read.pc = "responded" /\ read.status = 500)
       => \A j \in JobIds : heals[j].pc = "idle"
  /\ (read.pc = "responded" /\ read.status = 200)
       => \A j \in JobIds :
            jobs[j].status # "completed" => heals[j].pc = "mapped"

C20_Witness ==
  /\ read.pc = "responded" /\ read.status = 200
  /\ \E j, k \in JobIds :
       /\ heals[j].caught /\ heals[j].added = 0
       /\ ~heals[k].caught /\ heals[k].added = TotalPages

\* caller d has a page open on engine b and b is connected: d is rendering
RendersOn(d, b) ==
  /\ calls[d].pc \in {"setViewport", "content", "pdf"}
  /\ calls[d].browser = b
  /\ browsers[b].connected

\* the step is caller c entering resetBrowser() with a cached engine, from
\* the disconnected-instance check of getBrowser or from the retry path:
\* browserInstance.close() is called
ResetCloses(c) ==
  /\ calls[c].pc \in {"idle", "newPage"}
  /\ calls'[c].pc = "resetClose"
  /\ browserInstance # 0

(* C31: when a caller's reset calls browserInstance.close(), no other      *)
(* caller is rendering on that engine instance.                            *)
C31_ResetSparesEngineInUse ==
  [][\A c \in Callers :
       ResetCloses(c) =>
         \A d \in Callers \ {c} : ~RendersOn(d, browserInstance)]_vars

(* ======================================================================= *)
(* Claims on the rendering pipeline, continued (specification Spec)        *)
(* ======================================================================= *)
(* C22: every Document the merge worker has created holds exactly one      *)
(* artifact for each page index of [0, totalPages): none missing, none     *)
(* twice, whatever render tasks were delivered twice or re-enqueued.       *)
C22_MergedPagesExact ==
  \A n \in 1 .. Len(documents) :
    /\ Len(documents[n].pages) = job.totalPages
    /\ {documents[n].pages[i].pageIndex : i \in 1 .. Len(documents[n].pages)}
         = Pages

\* some page index of [0, totalPages) has no artifact
ArtifactsMissing(j) ==
  \E p \in 0 .. j.totalPages - 1 :
    p \notin ArtifactPageIndexes(j.pageArtifacts)

\* part_001 with every handler at rest and the job in merging without
\* output, a page without artifact and no merge task.  From here every
\* render delivery returns at the idempotency check (stage merging), no
\* merge task is added (the transition is behind, and the reconciler sees
\* hasAllArtifacts false), the reconciler only re-adds render tasks, and no
\* handler writes the job: stage=completed is out of reach
DeadEnd ==
  /\ variant = "part_001"
  /\ job.stage = "merging" /\ job.status = "processing"
  /\ job.outputDocumentId = NullId
  /\ ArtifactsMissing(job)
  /\ mergeTask.state = "absent"
  /\ \A w \in RenderWorkers : rw[w].pc = "idle"
  /\ \A m \in MergeWorkers : mw[m].pc = "idle"
  /\ heal.pc \in {"idle", "done", "renderLoop"}

(* C21: no work is lost: under duplicate deliveries, handlers that throw   *)
(* and reconciliation passes, the job never comes to rest in a state from  *)
(* which stage=completed with outputDocumentId set cannot be reached.      *)
C21_NoWorkLost == ~DeadEnd

\* no step of a worker, of the reconciler or of the clock leaves DeadEnd
DeadEndIsFinal == [][DeadEnd => DeadEnd']_vars

\* the job is finished: completed/completed with its output
Finished(j) ==
  j.stage = "completed" /\ j.status = "completed"
    /\ j.outputDocumentId # NullId

(* C23: once the job is completed/completed with outputDocumentId set, no  *)
(* later step changes its stage or its status.                             *)
C23_CompletedIsFinal ==
  [][Finished(job) => (job'.stage = job.stage /\ job'.status = job.status)]_vars

(* C24: while the stage is merging after a successful conditional          *)
(* transition and outputDocumentId is unset, no render worker's            *)
(* artifact-persisting update sets the stage back to rendering.            *)
C24_MergingNotUndone ==
  [][\A w \in RenderWorkers :
       (/\ transitions >= 1
        /\ job.stage = "merging"
        /\ job.outputDocumentId = NullId
        /\ rw[w].pc = "rendered"
        /\ uploads' = uploads + 1)
         => job'.stage # "rendering"]_vars

\* status as the coarse mirror of stage
Mirror(j) ==
  /\ j.stage = "pending" => j.status = "pending"
  /\ j.stage \in {"rendering", "merging"} => j.status = "processing"
  /\ j.stage = "completed" => j.status = "completed"
  /\ j.stage = "failed" => j.status = "failed"
  /\ j.stage \in {"pending", "rendering", "merging", "completed", "failed"}

(* C30: in every reachable state the job's status is the coarse mirror of  *)
(* its stage: pending/pending, rendering or merging/processing,            *)
(* completed/completed, failed/failed.                                     *)
C30_StatusMirrorsStage == Mirror(job)

\* C30 witness: the reconciler has put a job it read as failed back to
\* rendering, after workers wrote rendering and failed
C30_Witness ==
  /\ heal.wrote = "rendering"
  /\ job.stage = "rendering" /\ job.status = "processing"
  /\ uploads >= 1
  /\ failures >= 1

\* the step is the start of a reconciliation pass: the job is read and
\* selfHealJobIfStalled runs up to its first await
PassStarts == heal'.n = heal.n + 1

\* the pass that starts with this step returns before any await: it calls
\* no queue, writes no job and sets no cooldown map
PassDoesNothing ==
  /\ heal'.pc = "done"
  /\ job' = job
  /\ renderQ' = renderQ
  /\ mergeTask' = mergeTask
  /\ lastMergeHealAt' = lastMergeHealAt
  /\ lastJobHealAt' = lastJobHealAt

(* C27: a pass that starts less than 60 s after a pass that took the       *)
(* merge-repair path performs no queue operation and no job write; a pass  *)
(* is on the merge-repair path only when no such pass began in the 60 s    *)
(* before it, so two passes less than 60 s apart never both enqueue or     *)
(* retry the merge task.                                                   *)
C27_MergeCooldown ==
  [][/\ (PassStarts /\ lastMergeHealAt # 0
           /\ now - lastMergeHealAt < CooldownMs) => PassDoesNothing
     /\ heal'.pc \in {"mergeGetJob", "mergeWrite", "mergeQueue"} =>
          /\ heal'.now - heal'.lastAt >= CooldownMs
          /\ lastMergeHealAt' = heal'.now]_vars

\* C27 witness: the second or a later pass found all pages rendered and no
\* output, 40 s after a pass that took the merge-repair path, and returned
C27_Witness ==
  /\ heal.n >= 2
  /\ heal.pc = "done" /\ heal.path = "merge"
  /\ heal.lastAt # 0
  /\ heal.now > heal.lastAt
  /\ heal.now - heal.lastAt < CooldownMs
  /\ job.outputDocumentId = NullId
  /\ mergeAccepted >= 1

(* C28: a pass over a job with missing page artifacts whose updatedAt is   *)
(* less than 30 s old, or that follows a render heal of the job by less    *)
(* than 60 s, performs no queue operation and no job write; the pass       *)
(* writes the job or touches render tasks only when updatedAt is at least  *)
(* 30 s old and the last render heal at least 60 s.                        *)
C28_RenderHealOnlyWhenStale ==
  [][/\ (PassStarts /\ ArtifactsMissing(job)
           /\ \/ now - job.updatedAt < StaleMs
              \/ now - lastJobHealAt < CooldownMs) => PassDoesNothing
     /\ heal'.pc \in {"renderWrite", "renderLoop"} =>
          /\ ArtifactsMissing(heal'.job)
          /\ heal'.now - heal'.job.updatedAt >= StaleMs
          /\ heal'.now - heal'.lastAt >= CooldownMs]_vars

\* C28 witness: the first pass found the job fresh and returned; the second
\* one, after the clock moved on, has enqueued a missing page
C28_Witness ==
  /\ heal.n = 2
  /\ heal.path = "render" /\ heal.lastAt = 0
  /\ heal.added # {}
  /\ heal.now - heal.job.updatedAt >= StaleMs
  /\ ticks = 1

(* C29: when the reconciler found the task's identity in the queue, its    *)
(* queue step adds no task: it puts the task back to waiting if and only   *)
(* if the task's state is failed, and otherwise leaves the queue as it is. *)
C29_ExistingTaskRetriedIffFailed ==
  [][/\ (heal.pc = "mergeQueue" /\ heal'.pc = "done" /\ heal.existing) =>
          /\ mergeAccepted' = mergeAccepted
          /\ renderQ' = renderQ
          /\ IF mergeTask.state = "failed"
               THEN mergeTask' = [mergeTask EXCEPT !.state = "waiting"]
               ELSE mergeTask' = mergeTask
     /\ (/\ heal.pc = "renderLoop"
         /\ heal'.missing # heal.missing
         /\ renderQ[Head(heal.missing)].state # "absent") =>
          /\ mergeTask' = mergeTask
          /\ \A q \in Pages \ {Head(heal.missing)} : renderQ'[q] = renderQ[q]
          /\ IF renderQ[Head(heal.missing)].state = "failed"
               THEN renderQ' = [renderQ EXCEPT
                                  ![Head(heal.missing)].state = "waiting"]
               ELSE renderQ' = renderQ]_vars

\* C29 witness: one pass retried the failed task of one missing page and
\* left the existing task of another as it was
C29_Witness ==
  /\ heal.pc = "done"
  /\ heal.retried # {}
  /\ heal.skipped # {}
  /\ heal.added = {}

(* ======================================================================= *)
(* POST /secure-print (routes/docs.js): quota debit and presigned URL      *)
(* ======================================================================= *)
notPrint == <<pipeline, pool, resolver, statusRead, redis>>

\* what req.body.sessionToken can be: missing, no grant's token, the grant's
Tokens == {"none", "unknown", "valid"}

\* res.status(...).json({message}) or res.json({fileUrl, ...}): the handler
\* returns; status holds the message, "fileUrl" for the print URL
Answer(p, message) == [p EXCEPT !.pc = "responded", !.status = message]

\* the filter of the update access.save() sends: _id, and the version read
\* when the schema asks for it
SaveMatches(p) == ~versioned \/ access.version = p.version

\* the request arrives: the sessionToken test, DocumentAccess.findOne, the
\* two tests on its result and access.usedPrints += 1 on the copy read
PrintFindOne(r) ==
  /\ prints[r].pc = "idle"
  /\ \E token \in Tokens :
       LET p == [prints[r] EXCEPT !.token = token] IN
       prints' = [prints EXCEPT ![r] =
         IF token = "none" THEN Answer(p, "sessionToken is required")
         ELSE IF token = "unknown" THEN Answer(p, "Access not found")
         ELSE IF access.assignedQuota - access.usedPrints <= 0
           THEN Answer(p, "Print limit exceeded")
         ELSE [p EXCEPT !.pc = "save",
                        !.usedPrints = access.usedPrints + 1,
                        !.version = access.version]]
  /\ UNCHANGED <<versioned, s3Bucket, access, notPrint>>

\* DocumentAccess.findOne rejects: the catch block answers 500
PrintFindOneThrows(r) ==
  /\ prints[r].pc = "idle"
  /\ \E token \in Tokens \ {"none"} :
       prints' = [prints EXCEPT ![r] =
                    Answer([prints[r] EXCEPT !.token = token],
                           "Internal server error")]
  /\ UNCHANGED <<versioned, s3Bucket, access, notPrint>>

\* access.save() is applied: $set of usedPrints to the value computed from
\* the copy read; then the tests on the document and on the bucket
PrintSave(r) ==
  /\ prints[r].pc = "save"
  /\ IF SaveMatches(prints[r])
       THEN /\ access' = [access EXCEPT
                            !.usedPrints = prints[r].usedPrints,
                            !.version = IF versioned THEN @ + 1 ELSE @]
            /\ LET p == [prints[r] EXCEPT
                           !.delta = prints[r].usedPrints - access.usedPrints]
               IN prints' = [prints EXCEPT ![r] =
                    IF ~access.documentId
                      THEN Answer(p, "Document not found")
                    ELSE IF ~s3Bucket THEN Answer(p, "S3 not configured")
                    ELSE [p EXCEPT !.pc = "sign"]]
       ELSE \* VersionError: the catch block answers 500
            /\ prints' = [prints EXCEPT ![r] =
                            Answer(prints[r], "Internal server error")]
            /\ UNCHANGED access
  /\ UNCHANGED <<versioned, s3Bucket, notPrint>>

\* access.save() rejects with nothing written: the catch block answers 500
PrintSaveThrows(r) ==
  /\ prints[r].pc = "save"
  /\ prints' = [prints EXCEPT ![r] =
                  Answer(prints[r], "Internal server error")]
  /\ UNCHANGED <<versioned, s3Bucket, access, notPrint>>

\* getSignedUrl resolves: res.json({fileUrl, remainingPrints, maxPrints})
PrintSigned(r) ==
  /\ prints[r].pc = "sign"
  /\ prints' = [prints EXCEPT ![r] = Answer(prints[r], "fileUrl")]
  /\ UNCHANGED <<versioned, s3Bucket, access, notPrint>>

\* getSignedUrl rejects: the catch block answers 500
PrintSignThrows(r) ==
  /\ prints[r].pc = "sign"
  /\ prints' = [prints EXCEPT ![r] =
                  Answer(prints[r], "Internal server error")]
  /\ UNCHANGED <<versioned, s3Bucket, access, notPrint>>

\* a grant as the merge worker's upsert leaves it (usedPrints 0), with its
\* document present or deleted, and the requests not yet made
PrintInit ==
  /\ PipelineOff
  /\ PoolIdle /\ ResolverIdle /\ ReadIdle /\ RedisIdle
  /\ versioned \in BOOLEAN
  /\ s3Bucket \in BOOLEAN
  /\ \E quota \in 0 .. MaxQuota, doc \in BOOLEAN :
       access = [assignedQuota |-> quota, usedPrints |-> 0, version |-> 0,
                 documentId |-> doc]
  /\ prints = [r \in Requests |-> IdlePrint]

PrintNext ==
  \/ \E r \in Requests : PrintFindOne(r)
  \/ \E r \in Requests : PrintFindOneThrows(r)
  \/ \E r \in Requests : PrintSave(r)
  \/ \E r \in Requests : PrintSaveThrows(r)
  \/ \E r \in Requests : PrintSigned(r)
  \/ \E r \in Requests : PrintSignThrows(r)

PrintSpec == PrintInit /\ [][PrintNext]_vars

\* the requests answered with a print URL
Printed ==
  {r \in Requests : prints[r].pc = "responded" /\ prints[r].status = "fileUrl"}

(* C32: the number of requests answered with a print URL never exceeds     *)
(* assignedQuota, the stored usedPrints never exceeds it, and when no      *)
(* request is in progress usedPrints equals the number of those requests.  *)
C32_QuotaNeverExceeded ==
  /\ Cardinality(Printed) <= access.assignedQuota
  /\ access.usedPrints <= access.assignedQuota
  /\ (\A r \in Requests : prints[r].pc \in {"idle", "responded"})
       => access.usedPrints = Cardinality(Printed)

(* C33: a request answered with an error has left the stored usedPrints    *)
(* as it was.                                                              *)
C33_ErrorLeavesQuota ==
  \A r \in Requests :
    (prints[r].pc = "responded" /\ prints[r].status # "fileUrl")
      => prints[r].delta = 0

(* ======================================================================= *)
(* getRedisClient (src/unnamed/part_002): the shared redis client          *)
(* ======================================================================= *)
notRedis == <<pipeline, pool, resolver, statusRead, securePrint>>

\* `if (!client.isOpen && !isConnecting)` for client k of cls: connect() is
\* called and awaited under isConnecting, or `return client` is reached
ConnectOrReturn(g, k, cls) ==
  IF ~cls[k].isOpen /\ ~isConnecting
    THEN /\ isConnecting' = TRUE
         /\ clients' = [cls EXCEPT ![k].connect = "pending",
                                   ![k].isOpen = openOnConnect]
         /\ gets' = [gets EXCEPT ![g].pc = "connecting", ![g].mine = k]
    ELSE /\ clients' = cls
         /\ gets' = [gets EXCEPT ![g].pc = "returned", ![g].result = k,
                                 ![g].open = cls[k].isOpen]
         /\ UNCHANGED isConnecting

\* getRedisClient is called (redisEnabled): up to its first await or return
GetClient(g) ==
  /\ redisEnabled
  /\ gets[g].pc = "idle"
  /\ IF client # 0 /\ clients[client].isOpen
       THEN /\ gets' = [gets EXCEPT ![g].pc = "returned", ![g].result = client,
                                    ![g].open = TRUE]
            /\ UNCHANGED <<clients, isConnecting>>
     ELSE IF client = 0
       THEN /\ gets' = [gets EXCEPT
                          ![g].pc = IF redisUrl THEN "import" ELSE "threw"]
            /\ UNCHANGED <<clients, isConnecting>>
     ELSE ConnectOrReturn(g, client, clients)
  /\ UNCHANGED <<openOnConnect, redisUrl, client, notRedis>>

\* `await import('redis')` resumes: client = createClient(...), the handlers
\* are attached, and the isOpen/isConnecting test follows
ImportResolved(g) ==
  /\ gets[g].pc = "import"
  /\ \E k \in ClientIds :
       /\ ~clients[k].created
       /\ \A x \in ClientIds : x < k => clients[x].created
       /\ client' = k
       /\ ConnectOrReturn(g, k, [clients EXCEPT ![k].created = TRUE])
  /\ UNCHANGED <<openOnConnect, redisUrl, notRedis>>

\* client.connect() resolves: finally isConnecting = false; return client
ConnectResolved(g) ==
  /\ gets[g].pc = "connecting"
  /\ clients' = [clients EXCEPT ![gets[g].mine].connect = "done",
                                ![gets[g].mine].isOpen = TRUE]
  /\ isConnecting' = FALSE
  /\ gets' = [gets EXCEPT ![g].pc = "returned", ![g].result = client,
                          ![g].open = clients'[client].isOpen]
  /\ UNCHANGED <<openOnConnect, redisUrl, client, notRedis>>

\* client.connect() rejects: the error is logged and thrown again; finally
\* isConnecting = false
ConnectRejected(g) ==
  /\ gets[g].pc = "connecting"
  /\ clients' = [clients EXCEPT ![gets[g].mine].connect = "failed",
                                ![gets[g].mine].isOpen = FALSE]
  /\ isConnecting' = FALSE
  /\ gets' = [gets EXCEPT ![g].pc = "threw"]
  /\ UNCHANGED <<openOnConnect, redisUrl, client, notRedis>>

\* the caller calls getRedisClient again
GetAgain(g) ==
  /\ gets[g].pc \in {"returned", "threw"}
  /\ gets' = [gets EXCEPT ![g] = IdleGet]
  /\ UNCHANGED <<openOnConnect, redisUrl, client, isConnecting, clients,
                 notRedis>>

RedisInit ==
  /\ PipelineOff
  /\ PoolIdle /\ ResolverIdle /\ ReadIdle /\ PrintIdle
  /\ openOnConnect \in BOOLEAN
  /\ redisUrl \in BOOLEAN
  /\ client = 0
  /\ isConnecting = FALSE
  /\ clients = [k \in ClientIds |-> NoClient]
  /\ gets = [g \in Getters |-> IdleGet]

RedisNext ==
  \/ \E g \in Getters : GetClient(g)
  \/ \E g \in Getters : ImportResolved(g)
  \/ \E g \in Getters : ConnectResolved(g)
  \/ \E g \in Getters : ConnectRejected(g)
  \/ \E g \in Getters : GetAgain(g)

RedisSpec == RedisInit /\ [][RedisNext]_vars

\* the clients whose connect() has been called and has not settled
Connecting == {k \in ClientIds : clients[k].connect = "pending"}

(* C34: every call of getRedisClient that has returned was given a client  *)
(* whose isOpen was true at the return, and at most one connect() is in    *)
(* flight.                                                                 *)
C34_ReturnedClientIsOpen ==
  /\ \A g \in Getters : gets[g].pc = "returned" => gets[g].open
  /\ Cardinality(Connecting) <= 1
====
